---------------------------- MODULE Spec2Model ----------------------------
(***************************************************************************)
(* A model of the eduPath learning-path generator                          *)
(* (app/services/agent_service.py, app/apis/routes.py).                     *)
(*                                                                         *)
(* Texts are sequences of tokens.  A token is one character that some      *)
(* operation of the program distinguishes (a bracket, a quote, a           *)
(* backslash, a comma, a colon, a blank, a digit), the three-backtick      *)
(* fence marker, or a run of letters no operation looks into (a word).     *)
(* Parsed JSON values are tagged records [t |-> tag, v |-> payload]; an     *)
(* exception leaving a function is the value [t |-> "exc", v |-> kind].     *)
(***************************************************************************)
EXTENDS Integers, Sequences, FiniteSets, TLC

VARIABLES
    \* ---- one AgentWorkflow instance and the request that runs it
    stage,          \* position of generate_learning_path (a state of the run)
    phase,          \* position inside the stage
    logs,           \* self.logs
    text,           \* the text the last generative call returned
    market_data, structure_data, curated_data, final_roadmap, roadmap,
    error,          \* the exception that ended the run, "none" otherwise
    reply,          \* what the HTTP caller receives
    genai_model,    \* the process-wide _genai_model is set
    db_rows,        \* rows written through self.db
    current_roadmap_id, \* self._current_roadmap_id
    env,            \* configuration: credentials, provider, style, db session
    entered,        \* history: the states of the run, in the order entered
    calls,          \* history: generate_content requests, by stage
    searches,       \* history: provider searches issued, by module index
    extractions,    \* history: "found", "empty" or "raised", per _clean_json call
    \* ---- the pure functions applied to drawn inputs
    fn_in,          \* the input drawn
    fn_src,         \* how the input was drawn: the value a text serializes, the prose around it
    fn_out,         \* the result of the function
    fn_again,       \* the result of serializing fn_out and extracting again
    fn_pc           \* which function is applied, and how far

vars == << stage, phase, logs, text, market_data, structure_data, curated_data,
           final_roadmap, roadmap, error, reply, genai_model, db_rows,
           current_roadmap_id, env, entered, calls, searches, extractions,
           fn_in, fn_src, fn_out, fn_again, fn_pc >>

runVars == << stage, phase, logs, text, market_data, structure_data,
              curated_data, final_roadmap, roadmap, error, reply, genai_model,
              db_rows, current_roadmap_id, env, entered, calls, searches,
              extractions >>

fnVars == << fn_in, fn_src, fn_out, fn_again, fn_pc >>

----------------------------------------------------------------------------
(* Tokens *)

LBrace == "{"
RBrace == "}"
LBracket == "["
RBracket == "]"
Quote == "\""
Backslash == "\\"
Comma == ","
Colon == ":"
Blank == " "
Fence == "FENCE"      \* the marker of a code fence, three backticks
JsonTag == "json"

Digits == << "0", "1", "2", "3", "4", "5", "6", "7", "8", "9" >>

Whitespace == { Blank }
Openers == { LBrace, LBracket }
Closers == { RBrace, RBracket }

IsDigit(c) == \E d \in 1..10 : Digits[d] = c
DigitValue(c) == (CHOOSE d \in 1..10 : Digits[d] = c) - 1

----------------------------------------------------------------------------
(* Values *)

Unset == [t |-> "unset", v |-> 0]
Exc(kind) == [t |-> "exc", v |-> kind]
IsExc(x) == x.t = "exc"

ListVal(items) == [t |-> "list", v |-> items]
DictVal(pairs) == [t |-> "dict", v |-> pairs]
StrVal(chars) == [t |-> "str", v |-> chars]
IntVal(n) == [t |-> "int", v |-> n]
BoolVal(b) == [t |-> "bool", v |-> b]
NullVal == [t |-> "null", v |-> 0]
EmptyList == ListVal(<< >>)
Word(w) == StrVal(<< w >>)
EmptyStr == StrVal(<< >>)

\* dict(pairs): a repeated key keeps its first position and takes the last value
RECURSIVE DictSetFrom(_, _, _, _)
DictSetFrom(pairs, k, val, i) ==
    IF i > Len(pairs) THEN Append(pairs, << k, val >>)
    ELSE IF pairs[i][1] = k THEN [pairs EXCEPT ![i] = << k, val >>]
    ELSE DictSetFrom(pairs, k, val, i + 1)

DictSet(pairs, k, val) == DictSetFrom(pairs, k, val, 1)

HasKey(d, k) == \E i \in 1..Len(d.v) : d.v[i][1] = k

\* d.get(k): None when the key is absent
Get(d, k) ==
    IF HasKey(d, k)
    THEN d.v[CHOOSE i \in 1..Len(d.v) : d.v[i][1] = k][2]
    ELSE NullVal

\* d.get(k, default)
GetOr(d, k, default) == IF HasKey(d, k) THEN Get(d, k) ELSE default

\* bool(x) of Python
Truthy(x) ==
    CASE x.t = "null" -> FALSE
      [] x.t = "bool" -> x.v
      [] x.t = "int" -> x.v # 0
      [] x.t \in {"str", "list", "dict"} -> Len(x.v) > 0
      [] OTHER -> TRUE

\* a or b
Or2(a, b) == IF Truthy(a) THEN a ELSE b

----------------------------------------------------------------------------
(* _extract_json_substring *)

NoText == << >>     \* None: no candidate (a candidate found is never empty)

Matches(open, close) ==
    \/ open = LBrace /\ close = RBrace
    \/ open = LBracket /\ close = RBracket

\* The state of the inner loop: end is 0 while the loop runs, the index at
\* which the stack emptied once it has, and -1 after a break.
ScanStart(open) == [stack |-> << open >>, in_string |-> FALSE, escape |-> FALSE, end |-> 0]

\* one turn of the inner loop, on character c at index i
ScanStep(st, c, i) ==
    IF st.end # 0 THEN st
    ELSE IF st.escape THEN [st EXCEPT !.escape = FALSE]
    ELSE IF c = Backslash THEN [st EXCEPT !.escape = TRUE]
    ELSE IF c = Quote THEN [st EXCEPT !.in_string = ~st.in_string]
    ELSE IF st.in_string THEN st
    ELSE IF c \in Openers THEN [st EXCEPT !.stack = Append(st.stack, c)]
    ELSE IF c \in Closers
         THEN IF st.stack = << >> THEN [st EXCEPT !.end = -1]
              ELSE IF Matches(st.stack[Len(st.stack)], c)
                   THEN [st EXCEPT !.stack = SubSeq(st.stack, 1, Len(st.stack) - 1),
                                   !.end = IF Len(st.stack) = 1 THEN i ELSE 0]
                   ELSE [st EXCEPT !.end = -1]
    ELSE st

\* the turns for the characters lo..hi in order (halved, to keep the
\* evaluation shallow)
RECURSIVE ScanSpan(_, _, _, _)
ScanSpan(s, lo, hi, st) ==
    IF lo > hi THEN st
    ELSE IF lo = hi THEN ScanStep(st, s[lo], lo)
    ELSE LET left == ScanSpan(s, lo, (lo + hi) \div 2, st)
         IN  IF left.end # 0 THEN left
             ELSE ScanSpan(s, ((lo + hi) \div 2) + 1, hi, left)

\* the index that closes the span opened at start_idx, 0 when there is none
SpanEnd(s, start_idx) ==
    LET st == ScanSpan(s, start_idx + 1, Len(s), ScanStart(s[start_idx]))
    IN  IF st.end > 0 THEN st.end ELSE 0

\* the outer loop giving up after the first opening character in lo..hi
FirstOpenerOnly(s, lo, hi) ==
    LET openers == { i \in lo..hi : s[i] \in Openers }
        first == CHOOSE i \in openers : \A other \in openers : i <= other
    IN  IF openers = { } THEN 0
        ELSE IF SpanEnd(s, first) > 0 THEN first ELSE 0

\* The outer loop: every opening character is tried in turn as a start; the
\* first one in lo..hi whose span closes, 0 when there is none.
RECURSIVE FirstStart(_, _, _)
FirstStart(s, lo, hi) ==
    IF lo > hi THEN 0
    ELSE IF lo = hi
         THEN IF s[lo] \in Openers /\ SpanEnd(s, lo) > 0 THEN lo ELSE 0
    ELSE LET left == FirstStart(s, lo, (lo + hi) \div 2)
         IN  IF left > 0 THEN left ELSE FirstStart(s, ((lo + hi) \div 2) + 1, hi)

ExtractFrom(s, start_idx) ==
    LET found == FirstStart(s, start_idx, Len(s))
    IN  IF found = 0 THEN NoText ELSE SubSeq(s, found, SpanEnd(s, found))

ExtractJsonSubstring(s) == ExtractFrom(s, 1)

----------------------------------------------------------------------------
(* json.loads *)

Escapable == { Quote, Backslash, "/" }

\* the containers json.loads can be inside one another before the interpreter's
\* recursion limit stops the scanner (about a thousand in CPython; scaled to
\* the texts drawn here)
RecursionLimit == 6

ParseFail == [ok |-> FALSE, val |-> Unset, pos |-> 0, exc |-> "JSONDecodeError"]
TooDeep == [ok |-> FALSE, val |-> Unset, pos |-> 0, exc |-> "RecursionError"]
ParseOk(val, pos) == [ok |-> TRUE, val |-> val, pos |-> pos, exc |-> "none"]

\* the first index from i on that holds no blank (Len(s) + 1 when all do)
SkipWs(s, i) ==
    IF \E j \in i..Len(s) : s[j] \notin Whitespace
    THEN CHOOSE j \in i..Len(s) :
            s[j] \notin Whitespace /\ \A k \in i..(j - 1) : s[k] \in Whitespace
    ELSE IF i > Len(s) THEN i ELSE Len(s) + 1

\* the characters of a string from i, after its opening quote
RECURSIVE ScanString(_, _, _)
ScanString(s, i, acc) ==
    IF i > Len(s) THEN ParseFail
    ELSE IF s[i] = Quote THEN ParseOk(acc, i + 1)
    ELSE IF s[i] = Backslash
         THEN IF i + 1 <= Len(s) /\ s[i + 1] \in Escapable
              THEN ScanString(s, i + 2, Append(acc, s[i + 1]))
              ELSE ParseFail
    ELSE ScanString(s, i + 1, Append(acc, s[i]))

\* an integer: 0, or a nonzero digit followed by digits
RECURSIVE ScanDigits(_, _, _)
ScanDigits(s, i, n) ==
    IF i <= Len(s) /\ IsDigit(s[i])
    THEN ScanDigits(s, i + 1, 10 * n + DigitValue(s[i]))
    ELSE ParseOk(IntVal(n), i)

ScanNumber(s, i) ==
    IF s[i] = "0" THEN ParseOk(IntVal(0), i + 1) ELSE ScanDigits(s, i, 0)

RECURSIVE ScanOnce(_, _, _)
RECURSIVE ScanArrayItems(_, _, _, _)
RECURSIVE ScanObjectItems(_, _, _, _)

\* JSONArray, at the position of a value, with the items read so far
ScanArrayItems(s, i, items, depth) ==
    LET item == ScanOnce(s, i, depth) IN
    IF ~item.ok THEN item
    ELSE LET j == SkipWs(s, item.pos)
             got == Append(items, item.val)
         IN  IF j > Len(s) THEN ParseFail
             ELSE IF s[j] = RBracket THEN ParseOk(ListVal(got), j + 1)
             ELSE IF s[j] = Comma THEN ScanArrayItems(s, SkipWs(s, j + 1), got, depth)
             ELSE ParseFail

\* JSONObject, at the position of a key's opening quote, with the pairs so far
ScanObjectItems(s, i, pairs, depth) ==
    IF i > Len(s) \/ s[i] # Quote THEN ParseFail
    ELSE LET key == ScanString(s, i + 1, << >>) IN
    IF ~key.ok THEN ParseFail
    ELSE LET c == SkipWs(s, key.pos) IN
    IF c > Len(s) \/ s[c] # Colon THEN ParseFail
    ELSE LET item == ScanOnce(s, SkipWs(s, c + 1), depth) IN
    IF ~item.ok THEN item
    ELSE LET j == SkipWs(s, item.pos)
             got == DictSet(pairs, key.val, item.val)
         IN  IF j > Len(s) THEN ParseFail
             ELSE IF s[j] = RBrace THEN ParseOk(DictVal(got), j + 1)
             ELSE IF s[j] = Comma THEN ScanObjectItems(s, SkipWs(s, j + 1), got, depth)
             ELSE ParseFail

\* scan_once: the value that starts at position i, inside depth containers
ScanOnce(s, i, depth) ==
    IF i > Len(s) THEN ParseFail
    ELSE IF s[i] \in Openers /\ depth >= RecursionLimit THEN TooDeep
    ELSE IF s[i] = Quote
         THEN LET str == ScanString(s, i + 1, << >>)
              IN  IF str.ok THEN ParseOk(StrVal(str.val), str.pos) ELSE ParseFail
    ELSE IF s[i] = LBrace
         THEN LET j == SkipWs(s, i + 1)
              IN  IF j <= Len(s) /\ s[j] = RBrace THEN ParseOk(DictVal(<< >>), j + 1)
                  ELSE ScanObjectItems(s, j, << >>, depth + 1)
    ELSE IF s[i] = LBracket
         THEN LET j == SkipWs(s, i + 1)
              IN  IF j <= Len(s) /\ s[j] = RBracket THEN ParseOk(EmptyList, j + 1)
                  ELSE ScanArrayItems(s, j, << >>, depth + 1)
    ELSE IF s[i] = "null" THEN ParseOk(NullVal, i + 1)
    ELSE IF s[i] = "true" THEN ParseOk(BoolVal(TRUE), i + 1)
    ELSE IF s[i] = "false" THEN ParseOk(BoolVal(FALSE), i + 1)
    ELSE IF IsDigit(s[i]) THEN ScanNumber(s, i)
    ELSE ParseFail

\* json.loads(s): one value, blanks around it, nothing else
JsonLoads(s) ==
    LET got == ScanOnce(s, SkipWs(s, 1), 0) IN
    IF ~got.ok THEN Exc(got.exc)
    ELSE IF SkipWs(s, got.pos) = Len(s) + 1 THEN got.val
    ELSE Exc("JSONDecodeError")

----------------------------------------------------------------------------
(* json.dumps *)

RECURSIVE EscapeChars(_)
EscapeChars(chars) ==
    IF chars = << >> THEN << >>
    ELSE (IF chars[1] \in { Quote, Backslash } THEN << Backslash, chars[1] >>
          ELSE << chars[1] >>) \o EscapeChars(Tail(chars))

DumpString(chars) == << Quote >> \o EscapeChars(chars) \o << Quote >>

RECURSIVE DumpInt(_)
DumpInt(n) ==
    IF n < 10 THEN << Digits[n + 1] >>
    ELSE DumpInt(n \div 10) \o << Digits[(n % 10) + 1] >>

RECURSIVE JsonDumps(_)
RECURSIVE DumpItems(_, _)
RECURSIVE DumpPairs(_, _)

\* the items from index i on, joined by ", "
DumpItems(items, i) ==
    IF i > Len(items) THEN << >>
    ELSE (IF i > 1 THEN << Comma, Blank >> ELSE << >>)
         \o JsonDumps(items[i]) \o DumpItems(items, i + 1)

DumpPairs(pairs, i) ==
    IF i > Len(pairs) THEN << >>
    ELSE (IF i > 1 THEN << Comma, Blank >> ELSE << >>)
         \o DumpString(pairs[i][1]) \o << Colon, Blank >>
         \o JsonDumps(pairs[i][2]) \o DumpPairs(pairs, i + 1)

JsonDumps(x) ==
    CASE x.t = "list" -> << LBracket >> \o DumpItems(x.v, 1) \o << RBracket >>
      [] x.t = "dict" -> << LBrace >> \o DumpPairs(x.v, 1) \o << RBrace >>
      [] x.t = "str" -> DumpString(x.v)
      [] x.t = "int" -> DumpInt(x.v)
      [] x.t = "bool" -> IF x.v THEN << "true" >> ELSE << "false" >>
      [] x.t = "null" -> << "null" >>

----------------------------------------------------------------------------
(* _clean_json *)

\* the first index from i on that holds token c, or 0
IndexFrom(s, i, c) ==
    IF \E j \in i..Len(s) : s[j] = c
    THEN CHOOSE j \in i..Len(s) : s[j] = c /\ \A k \in i..(j - 1) : s[k] # c
    ELSE 0

\* the last index from i down to lo that holds no blank, or lo - 1
LastNonBlank(s, lo, i) ==
    IF \E j \in lo..i : s[j] \notin Whitespace
    THEN CHOOSE j \in lo..i :
            s[j] \notin Whitespace /\ \A k \in (j + 1)..i : s[k] \in Whitespace
    ELSE lo - 1

\* str.strip()
Strip(s) == SubSeq(s, SkipWs(s, 1), LastNonBlank(s, 1, Len(s)))

\* re.search of fence, optional "json", blanks, (lazy group), blanks, fence:
\* it matches from the first fence marker to the next one; group 1 is what is
\* between them after the tag, without the blanks at either end.
FenceSearch(s) ==
    LET open == IndexFrom(s, 1, Fence)
        close == IF open = 0 THEN 0 ELSE IndexFrom(s, open + 1, Fence)
    IN  IF close = 0 THEN [found |-> FALSE, group |-> << >>]
        ELSE LET afterTag == IF s[open + 1] = JsonTag THEN open + 2 ELSE open + 1
                 from == SkipWs(s, afterTag)
                 to == LastNonBlank(s, from, close - 1)
             IN  [found |-> TRUE, group |-> SubSeq(s, from, to)]

CleanJson(text_response) ==
    LET fenced == FenceSearch(text_response)
        candidate == IF fenced.found THEN Strip(fenced.group)
                     ELSE ExtractJsonSubstring(text_response)
    IN  IF candidate = << >> THEN EmptyList
        ELSE LET parsed == JsonLoads(candidate) IN
             IF parsed # Exc("JSONDecodeError") THEN parsed
             ELSE LET inner == ExtractJsonSubstring(candidate) IN
                  IF inner # << >> /\ JsonLoads(inner) # Exc("JSONDecodeError")
                  THEN JsonLoads(inner)
                  ELSE EmptyList

----------------------------------------------------------------------------
(* Words: str.lower and the keyword tests of _normalize_resource_type *)

LowerWord(w) ==
    CASE w = "Video" -> "video"
      [] w = "VIDEO" -> "video"
      [] w = "Course" -> "course"
      [] w = "Docs" -> "docs"
      [] w = "Documentation" -> "documentation"
      [] w = "Article" -> "article"
      [] w = "Blog" -> "blog"
      [] w = "Post" -> "post"
      [] w = "API" -> "api"
      [] w = "Doctor" -> "doctor"
      [] OTHER -> w

Lower(chars) == [i \in 1..Len(chars) |-> LowerWord(chars[i])]

\* the keywords that occur inside a lower-case word
KeywordsIn(w) ==
    CASE w = "video" -> { "video" }
      [] w = "course" -> { "course" }
      [] w = "doc" -> { "doc" }
      [] w = "docs" -> { "doc", "docs" }
      [] w = "documentation" -> { "doc", "documentation" }
      [] w = "article" -> { "article" }
      [] w = "blog" -> { "blog" }
      [] w = "post" -> { "post" }
      [] w = "doctor" -> { "doc" }
      [] OTHER -> { }

\* keyword in chars
Contains(keyword, chars) == \E i \in 1..Len(chars) : keyword \in KeywordsIn(chars[i])

----------------------------------------------------------------------------
(* _normalize_resource_type, _ensure_url, _normalize_roadmap *)

Key(w) == << w >>
Placeholder == << "https", Colon, "/", "/", "example.com" >>

NormalizeResourceType(raw_type) ==
    IF ~Truthy(raw_type) THEN Word("Article")
    ELSE IF raw_type.t # "str" THEN Exc("AttributeError")
    ELSE LET t == Lower(raw_type.v) IN
         IF Contains("video", t) THEN Word("Video")
         ELSE IF Contains("course", t) THEN Word("Course")
         ELSE IF Contains("doc", t) \/ Contains("documentation", t) \/ Contains("docs", t)
              THEN Word("Documentation")
         ELSE IF Contains("article", t) \/ Contains("blog", t) \/ Contains("post", t)
              THEN Word("Article")
         ELSE Word("Article")

\* _ensure_url without the test for a string
EnsureUrlUntyped(url) ==
    IF ~Truthy(url) THEN StrVal(Placeholder)
    ELSE IF url.t # "str" THEN url
    ELSE IF Strip(url.v) = << >> THEN StrVal(Placeholder)
    ELSE StrVal(Strip(url.v))

EnsureUrl(url) ==
    IF ~Truthy(url) \/ url.t # "str" \/ Strip(url.v) = << >> THEN StrVal(Placeholder)
    ELSE StrVal(Strip(url.v))

NormalizeResource(r) ==
    LET title == Or2(Or2(Get(r, Key("title")), Get(r, Key("name"))),
                     StrVal(<< "Untitled", Blank, "Resource" >>))
        url == EnsureUrl(Or2(Or2(Get(r, Key("url")), Get(r, Key("link"))), EmptyStr))
        raw_type == Or2(Or2(Get(r, Key("type")), Get(r, Key("format"))), EmptyStr)
        rtype == NormalizeResourceType(raw_type)
        duration == Or2(Or2(Get(r, Key("duration")), Get(r, Key("length"))), EmptyStr)
        reason == Or2(Or2(Get(r, Key("reason")), Get(r, Key("why"))), EmptyStr)
    IN  IF IsExc(rtype) THEN rtype
        ELSE DictVal(<< << Key("title"), title >>, << Key("url"), url >>,
                        << Key("type"), rtype >>, << Key("duration"), duration >>,
                        << Key("reason"), reason >> >>)

\* the loop over raw_resources from item i, with the resources appended so far
RECURSIVE NormalizeResourceItems(_, _, _)
NormalizeResourceItems(items, i, resources) ==
    IF i > Len(items) THEN ListVal(resources)
    ELSE IF items[i].t # "dict" THEN NormalizeResourceItems(items, i + 1, resources)
    ELSE LET res == NormalizeResource(items[i]) IN
         IF IsExc(res) THEN res
         ELSE NormalizeResourceItems(items, i + 1, Append(resources, res))

\* for r in raw_resources: a string yields characters and a dict its keys, none
\* of them a dict; a number cannot be iterated
NormalizeResources(raw_resources) ==
    IF raw_resources.t = "list" THEN NormalizeResourceItems(raw_resources.v, 1, << >>)
    ELSE IF raw_resources.t \in { "str", "dict" } THEN EmptyList
    ELSE Exc("TypeError")

ModuleId(idx) == idx + 1

NormalizeModule(m, idx) ==
    LET module_name == Or2(Or2(Or2(Get(m, Key("module_name")), Get(m, Key("title"))),
                               Get(m, Key("name"))),
                           StrVal(<< "Module", Blank >> \o DumpInt(idx + 1)))
        description == Or2(Or2(Get(m, Key("description")), Get(m, Key("desc"))), EmptyStr)
        skills == Or2(Or2(Get(m, Key("skills_covered")), Get(m, Key("skills"))), EmptyList)
        why_needed == Or2(Or2(Get(m, Key("why_needed")), Get(m, Key("why"))), EmptyStr)
        estimated_time == Or2(Or2(Get(m, Key("estimated_time")), Get(m, Key("duration"))),
                              EmptyStr)
        raw_resources == Or2(Get(m, Key("resources")), EmptyList)
        resources == NormalizeResources(raw_resources)
    IN  IF IsExc(resources) THEN resources
        ELSE DictVal(<< << Key("id"), IntVal(ModuleId(idx)) >>,
                        << Key("module_name"), module_name >>,
                        << Key("description"), description >>,
                        << Key("skills_covered"),
                           IF skills.t = "list" THEN skills ELSE ListVal(<< skills >>) >>,
                        << Key("resources"), resources >>,
                        << Key("why_needed"), why_needed >>,
                        << Key("estimated_time"), estimated_time >> >>)

\* the loop over enumerate(modules); idx counts from 0 as in the code
RECURSIVE NormalizeModules(_, _, _)
NormalizeModules(modules, idx, normalized) ==
    IF idx + 1 > Len(modules) THEN ListVal(normalized)
    ELSE IF modules[idx + 1].t # "dict" THEN NormalizeModules(modules, idx + 1, normalized)
    ELSE LET mod == NormalizeModule(modules[idx + 1], idx) IN
         IF IsExc(mod) THEN mod
         ELSE NormalizeModules(modules, idx + 1, Append(normalized, mod))

\* for v in raw.values(): the first list
RECURSIVE FirstListValue(_, _)
FirstListValue(pairs, i) ==
    IF i > Len(pairs) THEN << >>
    ELSE IF pairs[i][2].t = "list" THEN pairs[i][2].v
    ELSE FirstListValue(pairs, i + 1)

\* the resolution asking for "module_name" before the two keys
ResolveModulesNameFirst(raw) ==
    IF raw.t = "dict"
    THEN IF HasKey(raw, Key("module_name")) THEN << raw >>
         ELSE IF HasKey(raw, Key("learning_path")) /\ Get(raw, Key("learning_path")).t = "list"
         THEN Get(raw, Key("learning_path")).v
         ELSE IF HasKey(raw, Key("roadmap")) /\ Get(raw, Key("roadmap")).t = "list"
         THEN Get(raw, Key("roadmap")).v
         ELSE FirstListValue(raw.v, 1)
    ELSE IF raw.t = "list" THEN raw.v
    ELSE << >>

ResolveModules(raw) ==
    IF raw.t = "dict"
    THEN IF HasKey(raw, Key("learning_path")) /\ Get(raw, Key("learning_path")).t = "list"
         THEN Get(raw, Key("learning_path")).v
         ELSE IF HasKey(raw, Key("roadmap")) /\ Get(raw, Key("roadmap")).t = "list"
         THEN Get(raw, Key("roadmap")).v
         ELSE IF HasKey(raw, Key("module_name")) THEN << raw >>
         ELSE FirstListValue(raw.v, 1)
    ELSE IF raw.t = "list" THEN raw.v
    ELSE << >>

NormalizeRoadmap(raw) ==
    IF ~Truthy(raw) THEN EmptyList
    ELSE NormalizeModules(ResolveModules(raw), 0, << >>)

----------------------------------------------------------------------------
(* The search provider, as _fetch_real_youtube_videos sees it *)

MaxCandidates == 3      \* the most candidates a provider answers with

\* what one search_for_module request does: it raises, or it answers with n
\* candidates (none when n = 0)
ProviderOutcomes ==
    { [kind |-> "exception", n |-> 0] }
        \cup { [kind |-> "results", n |-> k] : k \in 0..MaxCandidates }

\* the k-th candidate: the keys both providers return, and the metrics of the
\* metrics-aware one
Candidate(service, k) ==
    DictVal(<< << Key("title"), StrVal(<< "candidate", Blank >> \o DumpInt(k)) >>,
               << Key("url"), StrVal(<< "https", Colon, "/", "/", "www.youtube.com",
                                        "/", "watch", "?", "v", "=" >> \o DumpInt(k)) >>,
               << Key("type"), Word("Video") >>,
               << Key("duration"), Word("Varies") >>,
               << Key("reason"), Word("snippet") >>,
               << Key("channel"), Word("YouTube") >> >>
            \o (IF service = "youtube"
                THEN << << Key("views"), StrVal(<< "1", "0", "0", "0" >>) >>,
                        << Key("likes"), StrVal(<< "1" >>) >> >>
                ELSE << >>))

\* skills[:2] if len(skills) >= 2 else skills, then ' '.join(primary_skills):
\* does the first statement of search_for_module get as far as a query
SkillsUsable(skills) ==
    \/ skills.t = "str"
    \/ skills.t = "dict" /\ Len(skills.v) < 2
    \/ /\ skills.t = "list"
       /\ \A i \in 1..Len(skills.v) : i <= 2 => skills.v[i].t = "str"

\* _fetch_real_youtube_videos with a service configured: the candidates, and
\* whether a request went out; every exception ends as no candidates
FetchRealYoutubeVideos(service, skills, count, outcome) ==
    IF ~SkillsUsable(skills) THEN [videos |-> << >>, requested |-> FALSE]
    ELSE IF outcome.kind = "exception" THEN [videos |-> << >>, requested |-> TRUE]
    ELSE [videos |-> [k \in 1..(IF outcome.n < count THEN outcome.n ELSE count)
                        |-> Candidate(service, k)],
          requested |-> TRUE]

----------------------------------------------------------------------------
(* _enrich_resources_with_real_links *)

\* what a for loop or a comprehension over x yields: the items of a list, the
\* keys of a dict, the characters of a string; other values cannot be iterated
Iterable(x) == x.t \in { "list", "dict", "str" }

IterItems(x) ==
    CASE x.t = "list" -> x.v
      [] x.t = "dict" -> [i \in 1..Len(x.v) |-> StrVal(x.v[i][1])]
      [] x.t = "str" -> [i \in 1..Len(x.v) |-> StrVal(<< x.v[i] >>)]

\* the test without lower()
VideoTestExact(r) ==
    IF r.t # "dict" THEN "AttributeError"
    ELSE IF GetOr(r, Key("type"), EmptyStr).t # "str" THEN "AttributeError"
    ELSE IF GetOr(r, Key("type"), EmptyStr).v = << "video" >> THEN "video"
    ELSE "other"

\* r.get("type", "").lower() == "video", or the exception it raises
VideoTest(r) ==
    IF r.t # "dict" THEN "AttributeError"
    ELSE IF GetOr(r, Key("type"), EmptyStr).t # "str" THEN "AttributeError"
    ELSE IF Lower(GetOr(r, Key("type"), EmptyStr).v) = << "video" >> THEN "video"
    ELSE "other"

RECURSIVE SelectResources(_, _, _)
SelectResources(items, i, wanted) ==
    IF i > Len(items) THEN << >>
    ELSE (IF VideoTest(items[i]) = wanted THEN << items[i] >> ELSE << >>)
         \o SelectResources(items, i + 1, wanted)

\* the count of the videos found, whatever the style
VideoCountAsFound(preferred_style, video_resources) == Len(video_resources)

VideoCount(preferred_style, video_resources) ==
    IF preferred_style = "Video"
    THEN IF Len(video_resources) > 3 THEN Len(video_resources) ELSE 3
    ELSE IF Len(video_resources) > 0 THEN Len(video_resources)
    ELSE 2

\* one turn of the loop: the enriched module or the exception, and the count
\* handed to search_for_module
EnrichModule(module, preferred_style, service, outcome) ==
    IF module.t # "dict" THEN [out |-> Exc("AttributeError"), asked |-> 0]
    ELSE LET skills == GetOr(module, Key("skills_covered"), EmptyList)
             resources == GetOr(module, Key("resources"), EmptyList)
         IN
         IF ~Iterable(resources) THEN [out |-> Exc("TypeError"), asked |-> 0]
         ELSE LET items == IterItems(resources) IN
         IF \E i \in 1..Len(items) : VideoTest(items[i]) = "AttributeError"
         THEN [out |-> Exc("AttributeError"), asked |-> 0]
         ELSE LET video_resources == SelectResources(items, 1, "video")
                  other_resources == SelectResources(items, 1, "other")
                  video_count == VideoCount(preferred_style, video_resources)
                  fetched == FetchRealYoutubeVideos(service, skills, video_count, outcome)
                  new_resources == IF fetched.videos # << >>
                                   THEN ListVal(fetched.videos \o other_resources)
                                   ELSE resources
              IN  [out |-> DictVal(DictSet(module.v, Key("resources"), new_resources)),
                   asked |-> video_count]

\* the loop from item i, with the modules enriched and the quotas asked so far
RECURSIVE EnrichFrom(_, _, _, _, _, _, _)
EnrichFrom(items, i, preferred_style, service, outcomes, enriched, asked) ==
    IF i > Len(items) THEN [out |-> ListVal(enriched), asked |-> asked]
    ELSE LET one == EnrichModule(items[i], preferred_style, service, outcomes[i]) IN
         IF IsExc(one.out) THEN [out |-> one.out, asked |-> asked]
         ELSE EnrichFrom(items, i + 1, preferred_style, service, outcomes,
                         Append(enriched, one.out), Append(asked, one.asked))

\* how many provider outcomes a call can consume
ModuleSlots(modules) == IF Iterable(modules) THEN Len(modules.v) ELSE 0

EnrichResourcesWithRealLinks(modules, preferred_style, service, outcomes) ==
    IF service = "none" THEN [out |-> modules, asked |-> << >>]
    ELSE IF ~Iterable(modules) THEN [out |-> Exc("TypeError"), asked |-> << >>]
    ELSE EnrichFrom(IterItems(modules), 1, preferred_style, service, outcomes,
                    << >>, << >>)

\* _clean_json printed no "Failed to parse JSON" diagnostic: a json.loads succeeded
StructureFound(text_response) ==
    LET fenced == FenceSearch(text_response)
        candidate == IF fenced.found THEN Strip(fenced.group)
                     ELSE ExtractJsonSubstring(text_response)
        inner == ExtractJsonSubstring(candidate)
    IN  /\ candidate # << >>
        /\ \/ ~IsExc(JsonLoads(candidate))
           \/ inner # << >> /\ ~IsExc(JsonLoads(inner))

\* what became of one call of _clean_json: a structure was parsed, or the empty
\* result stood in for it, or an exception left it
Extraction(text_response) ==
    IF IsExc(CleanJson(text_response)) THEN "raised"
    ELSE IF StructureFound(text_response) THEN "found"
    ELSE "empty"

----------------------------------------------------------------------------
(* RoadmapResponse: the validation of app/models/schemas.py *)

\* a str field: a string passes, None and containers fail, and a number passes
\* or fails with the version of the validation library
StrField(x) ==
    CASE x.t = "str" -> "valid"
      [] x.t \in { "int", "bool" } -> "either"
      [] OTHER -> "invalid"

Worst(verdicts) ==
    IF "invalid" \in verdicts THEN "invalid"
    ELSE IF "either" \in verdicts THEN "either"
    ELSE "valid"

StrFields(d, keys) ==
    Worst({ IF HasKey(d, Key(k)) THEN StrField(Get(d, Key(k))) ELSE "invalid" : k \in keys })

MarketTrendField(x) ==
    IF x.t # "dict" THEN "invalid"
    ELSE StrFields(x, { "skill", "demand_level", "growth_metric" })

LearningResourceField(r) ==
    StrFields(r, { "title", "url", "type", "duration", "reason" })

\* a module as _normalize_roadmap builds it
RoadmapModuleField(m) ==
    Worst({ StrFields(m, { "module_name", "description", "why_needed", "estimated_time" }) }
          \cup { StrField(Get(m, Key("skills_covered")).v[i]) :
                    i \in 1..Len(Get(m, Key("skills_covered")).v) }
          \cup { LearningResourceField(Get(m, Key("resources")).v[i]) :
                    i \in 1..Len(Get(m, Key("resources")).v) })

RoadmapResponseField(market_analysis, modules) ==
    IF market_analysis.t # "list" THEN "invalid"
    ELSE Worst({ MarketTrendField(market_analysis.v[i]) : i \in 1..Len(market_analysis.v) }
               \cup { RoadmapModuleField(modules.v[i]) : i \in 1..Len(modules.v) })

\* can the construction of the response succeed, can it raise
ValidationOutcomes(market_analysis, modules) ==
    CASE RoadmapResponseField(market_analysis, modules) = "valid" -> { TRUE }
      [] RoadmapResponseField(market_analysis, modules) = "invalid" -> { FALSE }
      [] OTHER -> { TRUE, FALSE }

----------------------------------------------------------------------------
(* _log and _save_roadmap_to_db *)

LogEntry(agent, action, n) == [agent_name |-> agent, action |-> action, n |-> n]

NoRows == [users |-> 0, roadmaps |-> 0, modules |-> 0, resources |-> 0, logs |-> << >>]

\* the entry put in front of the list
LogPrepend(agent_logs, agent, action, n) == << LogEntry(agent, action, n) >> \o agent_logs

\* self.logs after _log
LogAppend(agent_logs, agent, action, n) == Append(agent_logs, LogEntry(agent, action, n))

\* the rows after _log: a row is written only once a roadmap id is held
LogRows(rows, use_db, roadmap_id, agent, action, n) ==
    IF use_db /\ roadmap_id # 0
    THEN [rows EXCEPT !.logs = Append(@, [roadmap_id |-> roadmap_id,
                                          entry |-> LogEntry(agent, action, n)])]
    ELSE rows

RECURSIVE ResourceCount(_, _)
ResourceCount(modules, i) ==
    IF i > Len(modules) THEN 0
    ELSE Len(Get(modules[i], Key("resources")).v) + ResourceCount(modules, i + 1)

\* the rows after _save_roadmap_to_db; the new roadmap's id is rows.roadmaps + 1
SaveRoadmapToDb(rows, modules, agent_logs) ==
    [users |-> rows.users + 1,
     roadmaps |-> rows.roadmaps + 1,
     modules |-> rows.modules + Len(modules.v),
     resources |-> rows.resources + ResourceCount(modules.v, 1),
     logs |-> rows.logs \o [i \in 1..Len(agent_logs) |->
                               [roadmap_id |-> rows.roadmaps + 1, entry |-> agent_logs[i]]]]

\* len(x), or the TypeError of a value that has no length; the tokens of a
\* string stand for its characters (the count is only logged)
HasLen(x) == x.t \in { "list", "dict", "str" }
PyLen(x) == Len(x.v)

----------------------------------------------------------------------------
(* The texts the generative model answers with *)

SkillRow ==
    DictVal(<< << Key("skill"), Word("React") >>,
               << Key("demand_level"), Word("High") >>,
               << Key("growth_metric"), Word("rising") >> >>)

VideoResource ==
    DictVal(<< << Key("title"), Word("intro") >>, << Key("url"), Word("link") >>,
               << Key("type"), Word("Video") >>, << Key("duration"), Word("short") >>,
               << Key("reason"), Word("clear") >> >>)

BlogResource ==
    DictVal(<< << Key("title"), Word("guide") >>, << Key("url"), Word("link") >>,
               << Key("type"), Word("blog") >>, << Key("duration"), Word("short") >>,
               << Key("reason"), Word("deep") >> >>)

ModuleWith(name, resources) ==
    DictVal(<< << Key("id"), IntVal(7) >>,
               << Key("module_name"), Word(name) >>,
               << Key("description"), Word("text") >>,
               << Key("skills_covered"), ListVal(<< Word("HTML") >>) >>,
               << Key("resources"), resources >>,
               << Key("why_needed"), Word("gap") >>,
               << Key("estimated_time"), Word("week") >> >>)

VideoModule == ModuleWith("Basics", ListVal(<< VideoResource, BlogResource >>))
TextModule == ModuleWith("Hooks", ListVal(<< BlogResource >>))
BrokenModule == ModuleWith("State", IntVal(5))

Prose == << "a", Blank, "a" >>
FencedNumber == << Fence, JsonTag, Blank, "5", Blank, Fence >>
InProse(span) == << "a", Blank >> \o span \o << Blank, "a" >>
InFence(span) == << "a", Fence, JsonTag, Blank >> \o span \o << Blank, Fence >>

\* lists inside one another, n deep
RECURSIVE Nested(_)
Nested(n) == IF n = 0 THEN IntVal(1) ELSE ListVal(<< Nested(n - 1) >>)

\* nested one deeper than json.loads can follow
DeepText == JsonDumps(Nested(RecursionLimit + 1))

StageTexts(of_stage) ==
    CASE of_stage = "MARKET_ANALYSIS" ->
            { Prose, FencedNumber, DeepText,
              InFence(JsonDumps(ListVal(<< SkillRow >>))),
              JsonDumps(ListVal(<< IntVal(1) >>)) }
      [] of_stage = "ARCHITECTURE" ->
            { Prose, FencedNumber,
              InProse(JsonDumps(ListVal(<< TextModule >>))) }
      [] of_stage = "CURATION" ->
            { Prose,
              InProse(JsonDumps(ListVal(<< VideoModule, TextModule >>))),
              JsonDumps(DictVal(<< << Key("learning_path"), ListVal(<< VideoModule >>) >> >>)),
              JsonDumps(ListVal(<< BrokenModule >>)),
              FencedNumber }
      [] of_stage = "CRITIQUE" ->
            { Prose,
              InFence(JsonDumps(ListVal(<< VideoModule, TextModule >>))),
              JsonDumps(DictVal(<< << Key("roadmap"), ListVal(<< TextModule >>) >> >>)),
              JsonDumps(ListVal(<< IntVal(1), VideoModule >>)),
              JsonDumps(ListVal(<< BrokenModule >>)) }

----------------------------------------------------------------------------
(* One request: AgentWorkflow.__init__, generate_learning_path and its caller *)

Stages == << "MARKET_ANALYSIS", "ARCHITECTURE", "CURATION", "ENRICHMENT", "CRITIQUE" >>
CallStages == { "MARKET_ANALYSIS", "ARCHITECTURE", "CURATION", "CRITIQUE" }

\* __init__: the provider chosen from the credentials configured
\* the constructor asking for the Serper credential first
YoutubeServiceSerperFirst(youtube_key, serper_key) ==
    IF serper_key THEN "serper" ELSE IF youtube_key THEN "youtube" ELSE "none"

YoutubeService(youtube_key, serper_key) ==
    IF youtube_key THEN "youtube" ELSE IF serper_key THEN "serper" ELSE "none"

Environments ==
    [gemini_key : BOOLEAN, youtube_key : BOOLEAN, serper_key : BOOLEAN,
     preferred_style : { "Video", "Text" }, db : BOOLEAN]

RunInit ==
    /\ env \in Environments
    /\ genai_model \in { b \in BOOLEAN : b => env.gemini_key }
    /\ stage = "INIT"
    /\ phase = "idle"
    /\ logs = << >>
    /\ text = << >>
    /\ market_data = Unset
    /\ structure_data = Unset
    /\ curated_data = Unset
    /\ final_roadmap = Unset
    /\ roadmap = Unset
    /\ error = "none"
    /\ reply = [status |-> 0, agent_logs |-> << >>]
    /\ db_rows = NoRows
    /\ current_roadmap_id = 0
    /\ entered = << "INIT" >>
    /\ calls = [st \in CallStages |-> 0]
    /\ searches = << >>
    /\ extractions = << >>

FnIdle ==
    /\ fn_in = << >>
    /\ fn_src = Unset
    /\ fn_out = Unset
    /\ fn_again = Unset
    /\ fn_pc = "off"

Init == RunInit /\ FnIdle

\* an exception leaves generate_learning_path
Fails(kind) ==
    /\ stage' = "FAILED"
    /\ phase' = "raised"
    /\ error' = kind
    /\ entered' = Append(entered, "FAILED")

\* a stage is entered: its first log line is written and its prompt is built
Enter(next_stage, agent, action) ==
    /\ stage' = next_stage
    /\ entered' = Append(entered, next_stage)
    /\ logs' = LogAppend(logs, agent, action, 0)
    /\ db_rows' = LogRows(db_rows, env.db, current_roadmap_id, agent, action, 0)
    /\ UNCHANGED << fnVars, text, market_data, structure_data, curated_data, final_roadmap,
                    roadmap, error, reply, genai_model, current_roadmap_id, env,
                    calls, searches, extractions >>

EnterMarketAnalysis ==
    /\ stage = "INIT"
    /\ phase' = "calling"
    /\ Enter("MARKET_ANALYSIS", "Market Analyst", "Scanning job boards")

EnterArchitecture ==
    /\ stage = "MARKET_ANALYSIS" /\ phase = "finished"
    /\ phase' = "calling"
    /\ Enter("ARCHITECTURE", "Architect", "Designing curriculum structure")

EnterCuration ==
    /\ stage = "ARCHITECTURE" /\ phase = "finished"
    /\ phase' = "calling"
    /\ Enter("CURATION", "Curator", "Sourcing resources")

EnterEnrichment ==
    /\ stage = "CURATION" /\ phase = "finished"
    /\ phase' = "enriching"
    /\ Enter("ENRICHMENT", "Curator", "Fetching real YouTube videos")

\* EnterCritique without waiting for the enrichment
EnterCritiqueEarly ==
    /\ \/ stage = "ENRICHMENT" /\ phase = "finished"
       \/ stage = "CURATION" /\ phase = "finished"
    /\ phase' = "calling"
    /\ Enter("CRITIQUE", "Critic", "Validating logical flow")

EnterCritique ==
    /\ stage = "ENRICHMENT" /\ phase = "finished"
    /\ phase' = "calling"
    /\ Enter("CRITIQUE", "Critic", "Validating logical flow")

\* _ensure_model without the test of the credential
EnsureModelUnchecked(model_set, gemini_key) ==
    IF model_set THEN "ready" ELSE "configure"

\* _ensure_model: "ready" when the client is there, "configure" when it has to
\* be made first, "no_key" when there is no credential to make it with
EnsureModel(model_set, gemini_key) ==
    IF model_set THEN "ready" ELSE IF ~gemini_key THEN "no_key" ELSE "configure"

\* _call_model raises: the configuration error, or the wrapped request error
CallModelRaises ==
    /\ stage \in CallStages /\ phase = "calling"
    /\ \/ /\ EnsureModel(genai_model, env.gemini_key) = "no_key"
          /\ Fails("ConfigurationError")
          /\ UNCHANGED << genai_model, calls >>
       \/ /\ EnsureModel(genai_model, env.gemini_key) = "configure"
          /\ Fails("InitializationError")
          /\ UNCHANGED << genai_model, calls >>
       \/ /\ EnsureModel(genai_model, env.gemini_key) # "no_key"
          /\ genai_model' = TRUE
          /\ calls' = [calls EXCEPT ![stage] = @ + 1]
          /\ Fails("GenerativeCallError")
    /\ UNCHANGED << fnVars, logs, text, market_data, structure_data, curated_data,
                    final_roadmap, roadmap, reply, db_rows, current_roadmap_id,
                    env, searches, extractions >>

\* _call_model returns the response of generate_content
CallModelReturns ==
    /\ stage \in CallStages /\ phase = "calling"
    /\ EnsureModel(genai_model, env.gemini_key) # "no_key"
    /\ genai_model' = TRUE
    /\ calls' = [calls EXCEPT ![stage] = @ + 1]
    /\ \E answer \in StageTexts(stage) : text' = answer
    /\ phase' = "returned"
    /\ UNCHANGED << fnVars, stage, logs, market_data, structure_data, curated_data,
                    final_roadmap, roadmap, error, reply, db_rows,
                    current_roadmap_id, env, entered, searches, extractions >>

\* market_data = _clean_json(...); the log line takes len(market_data)
FinishMarketAnalysis ==
    /\ stage = "MARKET_ANALYSIS" /\ phase = "returned"
    /\ extractions' = Append(extractions, Extraction(text))
    /\ \E cleaned \in { CleanJson(text) } :
       IF IsExc(cleaned)
       THEN /\ Fails(cleaned.v)
            /\ UNCHANGED << market_data, logs, db_rows >>
       ELSE /\ market_data' = cleaned
            /\ IF HasLen(cleaned)
               THEN /\ logs' = LogAppend(logs, "Market Analyst", "Identified critical skills", PyLen(cleaned))
                    /\ db_rows' = LogRows(db_rows, env.db, current_roadmap_id,
                                          "Market Analyst", "Identified critical skills", PyLen(cleaned))
                    /\ phase' = "finished"
                    /\ UNCHANGED << stage, error, entered >>
               ELSE /\ Fails("TypeError")
                    /\ UNCHANGED << logs, db_rows >>
    /\ UNCHANGED << fnVars, text, structure_data, curated_data, final_roadmap, roadmap, reply,
                    genai_model, current_roadmap_id, env, calls, searches >>

\* structure_data = _clean_json(...); the log line takes len(structure_data)
FinishArchitecture ==
    /\ stage = "ARCHITECTURE" /\ phase = "returned"
    /\ extractions' = Append(extractions, Extraction(text))
    /\ \E cleaned \in { CleanJson(text) } :
       IF IsExc(cleaned)
       THEN /\ Fails(cleaned.v)
            /\ UNCHANGED << structure_data, logs, db_rows >>
       ELSE /\ structure_data' = cleaned
            /\ IF HasLen(cleaned)
               THEN /\ logs' = LogAppend(logs, "Architect", "Created modules", PyLen(cleaned))
                    /\ db_rows' = LogRows(db_rows, env.db, current_roadmap_id,
                                          "Architect", "Created modules", PyLen(cleaned))
                    /\ phase' = "finished"
                    /\ UNCHANGED << stage, error, entered >>
               ELSE /\ Fails("TypeError")
                    /\ UNCHANGED << logs, db_rows >>
    /\ UNCHANGED << fnVars, text, market_data, curated_data, final_roadmap, roadmap, reply,
                    genai_model, current_roadmap_id, env, calls, searches >>

\* curated_data = _clean_json(...)
FinishCuration ==
    /\ stage = "CURATION" /\ phase = "returned"
    /\ extractions' = Append(extractions, Extraction(text))
    /\ \E cleaned \in { CleanJson(text) } :
       IF IsExc(cleaned)
       THEN /\ Fails(cleaned.v)
            /\ UNCHANGED curated_data
       ELSE /\ curated_data' = cleaned
            /\ phase' = "finished"
            /\ UNCHANGED << stage, error, entered >>
    /\ UNCHANGED << fnVars, logs, text, market_data, structure_data, final_roadmap,
                    roadmap, reply, genai_model, db_rows, current_roadmap_id,
                    env, calls, searches >>

\* curated_data = _enrich_resources_with_real_links(...), then the log line
Enrich ==
    /\ stage = "ENRICHMENT" /\ phase = "enriching"
    /\ \E outcomes \in [1..ModuleSlots(curated_data) -> ProviderOutcomes] :
         \E done \in { EnrichResourcesWithRealLinks(
                           curated_data, env.preferred_style,
                           YoutubeService(env.youtube_key, env.serper_key), outcomes) } :
             /\ searches' = done.asked
             /\ IF IsExc(done.out)
                THEN /\ Fails(done.out.v)
                     /\ UNCHANGED << curated_data, logs, db_rows >>
                ELSE /\ curated_data' = done.out
                     /\ logs' = LogAppend(logs, "Curator", "Real video links integrated", 0)
                     /\ db_rows' = LogRows(db_rows, env.db, current_roadmap_id, "Curator",
                                           "Real video links integrated", 0)
                     /\ phase' = "finished"
                     /\ UNCHANGED << stage, error, entered >>
    /\ UNCHANGED << fnVars, text, market_data, structure_data, final_roadmap, roadmap, reply,
                    genai_model, current_roadmap_id, env, calls, extractions >>

\* final_roadmap = _clean_json(...), the last log line, _normalize_roadmap,
\* _save_roadmap_to_db and the construction of the RoadmapResponse
FinishCritique ==
    /\ stage = "CRITIQUE" /\ phase = "returned"
    /\ extractions' = Append(extractions, Extraction(text))
    /\ \E cleaned \in { CleanJson(text) } :
       \E normalized_roadmap \in { NormalizeRoadmap(cleaned) },
          logged \in { LogRows(db_rows, env.db, current_roadmap_id, "System",
                               "Roadmap generation complete", 0) } :
           IF IsExc(cleaned)
           THEN /\ Fails(cleaned.v)
                /\ UNCHANGED << final_roadmap, logs, db_rows, roadmap, current_roadmap_id >>
           ELSE /\ final_roadmap' = cleaned
                /\ logs' = LogAppend(logs, "System", "Roadmap generation complete", 0)
                /\ IF IsExc(normalized_roadmap)
                   THEN /\ Fails(normalized_roadmap.v)
                        /\ db_rows' = logged
                        /\ UNCHANGED << roadmap, current_roadmap_id >>
                   ELSE /\ roadmap' = normalized_roadmap
                        /\ db_rows' = IF env.db
                                      THEN SaveRoadmapToDb(logged, normalized_roadmap, logs')
                                      ELSE logged
                        /\ current_roadmap_id' = IF env.db THEN logged.roadmaps + 1
                                                 ELSE current_roadmap_id
                        /\ \E valid \in ValidationOutcomes(market_data, normalized_roadmap) :
                             IF valid
                             THEN /\ stage' = "DONE"
                                  /\ phase' = "finished"
                                  /\ entered' = Append(entered, "DONE")
                                  /\ UNCHANGED error
                             ELSE Fails("ValidationError")
    /\ UNCHANGED << fnVars, text, market_data, structure_data, curated_data, reply,
                    genai_model, env, calls, searches >>

\* generate_roadmap handing the log list over with the error
RespondWithLogs ==
    /\ stage \in { "DONE", "FAILED" }
    /\ reply.status = 0
    /\ reply' = [status |-> IF stage = "DONE" THEN 200 ELSE 500, agent_logs |-> logs]
    /\ UNCHANGED << fnVars, stage, phase, logs, text, market_data, structure_data,
                    curated_data, final_roadmap, roadmap, error, genai_model,
                    db_rows, current_roadmap_id, env, entered, calls, searches,
                    extractions >>

\* generate_roadmap of app/apis/routes.py: the result, or the HTTP 500 that
\* carries the message of the exception
Respond ==
    /\ stage \in { "DONE", "FAILED" }
    /\ reply.status = 0
    /\ reply' = IF stage = "DONE" THEN [status |-> 200, agent_logs |-> logs]
                ELSE [status |-> 500, agent_logs |-> << >>]
    /\ UNCHANGED << fnVars, stage, phase, logs, text, market_data, structure_data,
                    curated_data, final_roadmap, roadmap, error, genai_model,
                    db_rows, current_roadmap_id, env, entered, calls, searches,
                    extractions >>

RunNext ==
    \/ EnterMarketAnalysis
    \/ CallModelRaises
    \/ CallModelReturns
    \/ FinishMarketAnalysis
    \/ EnterArchitecture
    \/ FinishArchitecture
    \/ EnterCuration
    \/ FinishCuration
    \/ EnterEnrichment
    \/ Enrich
    \/ EnterCritique
    \/ FinishCritique
    \/ Respond

Next == RunNext

Spec == Init /\ [][Next]_vars

----------------------------------------------------------------------------
(* The run of one request: claims C1 to C5 *)

StageOrder ==
    << "INIT", "MARKET_ANALYSIS", "ARCHITECTURE", "CURATION", "ENRICHMENT",
       "CRITIQUE", "DONE" >>

\* the stages entered, FAILED left out
Progress == IF stage = "FAILED" THEN SubSeq(entered, 1, Len(entered) - 1) ELSE entered

\* the exceptions of _call_model
CallErrors == { "ConfigurationError", "InitializationError", "GenerativeCallError" }

\* C1: the stages are entered in the fixed order MARKET_ANALYSIS, ARCHITECTURE,
\* CURATION, ENRICHMENT, CRITIQUE, DONE, each at most once and none before its
\* predecessor has finished or after a later one; only DONE and FAILED are
\* terminal, and nothing follows either of them.
StagesInOrder ==
    /\ stage = entered[Len(entered)]
    /\ Len(Progress) \in 1..Len(StageOrder)
    /\ Progress = SubSeq(StageOrder, 1, Len(Progress))
    /\ Len(Progress) >= 3 => market_data # Unset
    /\ Len(Progress) >= 4 => structure_data # Unset
    /\ Len(Progress) >= 5 => curated_data # Unset
    /\ Len(Progress) >= 6 =>
          \E i \in DOMAIN logs : logs[i].action = "Real video links integrated"
    /\ Len(Progress) = 7 => roadmap # Unset /\ stage = "DONE"
    /\ stage \notin { "DONE", "FAILED" } =>
          \/ stage \in CallStages /\ phase = "returned"
          \/ ENABLED (EnterMarketAnalysis \/ EnterArchitecture \/ EnterCuration
                         \/ EnterEnrichment \/ EnterCritique \/ CallModelRaises \/ Enrich)
    /\ stage \in { "DONE", "FAILED" } => ~ENABLED (RunNext /\ stage' # stage)

StagesInOrderWitness ==
    /\ stage = "DONE"
    /\ entered = StageOrder

\* C2 (as claimed): a run fails only when a generative-text call raises; with
\* four calls that return, whatever their texts and whatever the provider
\* does, the run is never in FAILED.
OnlyCallsFail ==
    stage = "FAILED" => error \in CallErrors

\* C3 (as claimed): a stage whose text holds no parseable structure gets the
\* empty structure and the run is not aborted by anything but a raising call.
EmptyStageNeverAborts ==
    (stage = "FAILED" /\ \E i \in DOMAIN extractions : extractions[i] = "empty")
        => error \in CallErrors

\* the log lines of a run without failure, in order
LogTrail ==
    << << "Market Analyst", "Scanning job boards" >>,
       << "Market Analyst", "Identified critical skills" >>,
       << "Architect", "Designing curriculum structure" >>,
       << "Architect", "Created modules" >>,
       << "Curator", "Sourcing resources" >>,
       << "Curator", "Fetching real YouTube videos" >>,
       << "Curator", "Real video links integrated" >>,
       << "Critic", "Validating logical flow" >>,
       << "System", "Roadmap generation complete" >> >>

\* the lines written when the call of a stage is made: those of the stages
\* completed and the first line of the stage itself
TrailAtCall(of_stage) ==
    CASE of_stage = "MARKET_ANALYSIS" -> 1
      [] of_stage = "ARCHITECTURE" -> 3
      [] of_stage = "CURATION" -> 5
      [] of_stage = "CRITIQUE" -> 8

StageIndex(of_stage) == CHOOSE i \in 1..Len(StageOrder) : StageOrder[i] = of_stage

\* the stage a failed run was in
Failing == entered[Len(entered) - 1]

\* C4 (as claimed): after a raising generative-text call the reply to the
\* caller carries the log entries written up to that point.
LogsReturnedWithError ==
    (stage = "FAILED" /\ error \in CallErrors /\ reply.status # 0)
        => reply.agent_logs = logs

\* C4 (amended): after a raising generative-text call the run is in FAILED, no
\* later stage has made a call, and the log list of the workflow holds exactly
\* the lines of the completed stages and the first line of the failing stage;
\* the reply to the caller is the HTTP 500 and carries none of them.
LogsKeptNotReturned ==
    (stage = "FAILED" /\ error \in CallErrors) =>
        /\ Failing \in CallStages
        /\ \A st \in CallStages : StageIndex(st) > StageIndex(Failing) => calls[st] = 0
        /\ [i \in 1..Len(logs) |-> << logs[i].agent_name, logs[i].action >>]
               = SubSeq(LogTrail, 1, TrailAtCall(Failing))
        /\ reply.status # 0 => reply = [status |-> 500, agent_logs |-> << >>]

LogsKeptNotReturnedWitness ==
    /\ stage = "FAILED"
    /\ error = "GenerativeCallError"
    /\ Failing = "CRITIQUE"
    /\ Len(logs) = 8
    /\ reply.status = 500

\* C5: without the generative-text credential the first _call_model raises the
\* configuration error: the run fails in its first stage, no generative-text
\* call is ever issued and no stage produces a result.
NoKeyNoCall ==
    ~env.gemini_key =>
        /\ \A st \in CallStages : calls[st] = 0
        /\ market_data = Unset /\ structure_data = Unset /\ curated_data = Unset
        /\ final_roadmap = Unset /\ roadmap = Unset
        /\ stage \in { "INIT", "MARKET_ANALYSIS", "FAILED" }
        /\ stage = "FAILED" => error = "ConfigurationError"
        /\ stage = "MARKET_ANALYSIS" => ENABLED CallModelRaises /\ ~ENABLED CallModelReturns

NoKeyNoCallWitness ==
    /\ ~env.gemini_key
    /\ stage = "FAILED"
    /\ error = "ConfigurationError"
    /\ entered = << "INIT", "MARKET_ANALYSIS", "FAILED" >>
    /\ reply.status = 500

----------------------------------------------------------------------------
(* _clean_json applied to drawn texts *)

MaxTextLen == 4     \* the longest text drawn token by token
MaxProse == 2       \* the most tokens of prose before an embedded span
MaxTrail == 1       \* the most tokens of prose after an embedded span
MaxItems == 2       \* the most items of a serialized list

ExtractAlphabet ==
    { LBracket, RBracket, LBrace, RBrace, Quote, Backslash, "1", Fence }
ProseAlphabet == { "a", LBracket, RBrace, Quote, Backslash }

SeqsUpTo(alphabet, n) == UNION { [1..k -> alphabet] : k \in 0..n }

\* the strings and numbers a serialized value is made of
Atoms ==
    { IntVal(1), StrVal(<< "a" >>), StrVal(<< Quote >>), StrVal(<< RBracket >>),
      StrVal(<< Fence >>) }

\* structured values: lists of atoms, and objects of one pair
CleanValues ==
    { ListVal(items) : items \in SeqsUpTo(Atoms, MaxItems) }
        \cup { DictVal(<< << Key("a"), x >> >>) : x \in Atoms }
        \cup { DictVal(<< >>), ListVal(<< EmptyList >>) }

\* the spans embedded in prose
SpanValues ==
    { ListVal(<< IntVal(1) >>), ListVal(<< StrVal(<< RBracket >>) >>),
      DictVal(<< << Key("a"), StrVal(<< RBrace >>) >> >>), DictVal(<< >>) }

NoSource == [kind |-> "raw", value |-> Unset, pre |-> << >>, post |-> << >>]

\* runVars while no request runs
RunOff ==
    /\ stage = "OFF"
    /\ phase = "idle"
    /\ logs = << >>
    /\ text = << >>
    /\ market_data = Unset
    /\ structure_data = Unset
    /\ curated_data = Unset
    /\ final_roadmap = Unset
    /\ roadmap = Unset
    /\ error = "none"
    /\ reply = [status |-> 0, agent_logs |-> << >>]
    /\ genai_model = FALSE
    /\ db_rows = NoRows
    /\ current_roadmap_id = 0
    /\ env = [gemini_key |-> FALSE, youtube_key |-> FALSE, serper_key |-> FALSE,
              preferred_style |-> "Video", db |-> FALSE]
    /\ entered = << >>
    /\ calls = [st \in CallStages |-> 0]
    /\ searches = << >>
    /\ extractions = << >>

InitExtract ==
    /\ RunOff
    /\ fn_pc = "text"
    /\ fn_out = Unset
    /\ fn_again = Unset
    /\ \/ /\ fn_in \in SeqsUpTo(ExtractAlphabet, MaxTextLen)
          /\ fn_src = NoSource
       \/ \E x \in CleanValues :
             /\ fn_in = JsonDumps(x)
             /\ fn_src = [kind |-> "clean", value |-> x, pre |-> << >>, post |-> << >>]
       \/ /\ fn_in = DeepText
          /\ fn_src = [kind |-> "deep", value |-> Nested(RecursionLimit + 1),
                       pre |-> << >>, post |-> << >>]
       \/ \E x \in SpanValues, pre \in SeqsUpTo(ProseAlphabet, MaxProse),
             post \in SeqsUpTo(ProseAlphabet, MaxTrail) :
             \/ /\ fn_in = pre \o JsonDumps(x) \o post
                /\ fn_src = [kind |-> "prose", value |-> x, pre |-> pre, post |-> post]
             \/ /\ fn_in = << Fence >> \o pre \o JsonDumps(x) \o post \o << Fence >>
                /\ fn_src = [kind |-> "fence", value |-> x, pre |-> pre, post |-> post]

\* result = _clean_json(text)
Extract ==
    /\ fn_pc = "text"
    /\ fn_out' = CleanJson(fn_in)
    /\ fn_pc' = "extracted"
    /\ UNCHANGED << runVars, fn_in, fn_src, fn_again >>

\* the result of a clean text is serialized and extracted again
ExtractAgain ==
    /\ fn_pc = "extracted"
    /\ fn_src.kind = "clean"
    /\ ~IsExc(fn_out)
    /\ fn_again' = CleanJson(JsonDumps(fn_out))
    /\ fn_pc' = "again"
    /\ UNCHANGED << runVars, fn_in, fn_src, fn_out >>

NextExtract ==
    \/ Extract
    \/ ExtractAgain

SpecExtract == InitExtract /\ [][NextExtract]_vars

\* C7 (as claimed): _clean_json never raises; whatever the text, it returns a
\* parsed value or the empty result.
CleanJsonNeverRaises ==
    fn_pc # "text" => ~IsExc(fn_out)

\* where the embedded span lies in the text drawn
SpanFirst == Len(fn_src.pre) + (IF fn_src.kind = "fence" THEN 2 ELSE 1)
SpanLast == SpanFirst + Len(JsonDumps(fn_src.value)) - 1

\* no part of the text outside the embedded span is an object or an array
OnlySpan ==
    \A i \in 1..Len(fn_in) : \A j \in i..Len(fn_in) :
        JsonLoads(SubSeq(fn_in, i, j)).t \in { "list", "dict" }
            => i >= SpanFirst /\ j <= SpanLast

\* C9 (as claimed): of a text that holds exactly one balanced object or array,
\* in prose or in a code fence, _clean_json returns the parse of that span,
\* whatever stray brackets, quotes or backslashes surround it.
OneSpanParsed ==
    (fn_pc = "extracted" /\ fn_src.kind \in { "prose", "fence" } /\ OnlySpan)
        => fn_out = fn_src.value

\* C10 (as claimed): of the serialization of a structured value _clean_json
\* returns that value, and the serialization of the result gives it again.
ExtractionIdempotent ==
    fn_src.kind = "clean" =>
        /\ fn_pc # "text" => fn_out = fn_src.value
        /\ fn_pc = "again" => fn_again = fn_out

----------------------------------------------------------------------------
(* _normalize_roadmap applied to drawn values *)

MaxEntries == 2     \* the most entries of a drawn module list

NamedModule ==
    DictVal(<< << Key("id"), IntVal(7) >>, << Key("module_name"), Word("Basics") >> >>)

\* resources that differ in where their address is and what it is
UrlResources ==
    << DictVal(<< << Key("url"), StrVal(<< Blank, "site", Blank >>) >> >>),
       DictVal(<< << Key("url"), IntVal(5) >>, << Key("link"), Word("site") >> >>),
       IntVal(1),
       DictVal(<< << Key("url"), IntVal(0) >>,
                  << Key("link"), StrVal(<< Blank, "site" >>) >> >>),
       DictVal(<< << Key("link"), StrVal(<< Blank, Blank >>) >> >>),
       DictVal(<< >>),
       DictVal(<< << Key("url"), ListVal(<< Word("site") >>) >> >>),
       DictVal(<< << Key("url"), StrVal(<< Blank >>) >>, << Key("link"), Word("site") >> >>),
       DictVal(<< << Key("url"), EmptyStr >>, << Key("link"), Word("site") >> >>) >>

UrlModule == DictVal(<< << Key("resources"), ListVal(UrlResources) >> >>)

\* what a parsed module list can hold: modules with and without fields, with
\* resources of several shapes, and values that are no keyed container
Entries ==
    { IntVal(1), Word("note"), NullVal, DictVal(<< >>), NamedModule, UrlModule,
      DictVal(<< << Key("title"), Word("Hooks") >>,
                 << Key("resources"), ListVal(<< VideoResource, IntVal(1) >>) >> >>),
      DictVal(<< << Key("resources"), IntVal(5) >> >>),
      DictVal(<< << Key("resources"), Word("none") >> >>),
      DictVal(<< << Key("resources"),
                    ListVal(<< DictVal(<< << Key("type"), IntVal(5) >>,
                                          << Key("url"), IntVal(5) >> >>) >>) >> >>),
      DictVal(<< << Key("skills"), Word("HTML") >>,
                 << Key("resources"),
                    ListVal(<< DictVal(<< << Key("format"),
                                             StrVal(<< "Video", Blank, "Course" >>) >>,
                                          << Key("link"), StrVal(<< Blank >>) >> >>) >>) >> >>) }

ModuleLists == { ListVal(items) : items \in SeqsUpTo(Entries, MaxEntries) }

\* keyed containers in which more than one way to the modules is open
KeyedShapes ==
    { DictVal(<< << Key("roadmap"), ListVal(<< NamedModule >>) >>,
                 << Key("learning_path"), ListVal(<< DictVal(<< >>), NamedModule >>) >> >>),
      DictVal(<< << Key("module_name"), Word("Basics") >>,
                 << Key("roadmap"), ListVal(<< DictVal(<< >>), DictVal(<< >>) >>) >> >>),
      DictVal(<< << Key("module_name"), Word("Basics") >>,
                 << Key("roadmap"), IntVal(1) >>,
                 << Key("resources"), ListVal(<< VideoResource, BlogResource >>) >> >>),
      DictVal(<< << Key("note"), Word("a") >>,
                 << Key("first"), ListVal(<< NamedModule >>) >>,
                 << Key("second"), ListVal(<< DictVal(<< >>), DictVal(<< >>) >>) >> >>),
      DictVal(<< << Key("note"), Word("a") >>, << Key("count"), IntVal(2) >> >>) }

\* every shape _clean_json can hand over
NormalizeInputs ==
    ModuleLists
        \cup { DictVal(<< << Key("learning_path"), x >> >>) : x \in ModuleLists }
        \cup { DictVal(<< << Key("learning_path"), IntVal(1) >>, << Key("roadmap"), x >> >>) :
                  x \in ModuleLists }
        \cup { DictVal(<< << Key("note"), Word("a") >>, << Key("items"), x >> >>) :
                  x \in ModuleLists }
        \cup Entries
        \cup { IntVal(0), BoolVal(TRUE), EmptyStr }
        \cup KeyedShapes

InitNormalize ==
    /\ RunOff
    /\ fn_pc = "raw"
    /\ fn_in \in NormalizeInputs
    /\ fn_src = NoSource
    /\ fn_out = Unset
    /\ fn_again = Unset

\* result = _normalize_roadmap(raw)
Normalize ==
    /\ fn_pc = "raw"
    /\ fn_out' = NormalizeRoadmap(fn_in)
    /\ fn_pc' = "normalized"
    /\ UNCHANGED << runVars, fn_in, fn_src, fn_again >>

NextNormalize == Normalize

SpecNormalize == InitNormalize /\ [][NextNormalize]_vars

\* C6 (as claimed): the ids of the modules _normalize_roadmap returns are
\* 1, 2, ..., N in output order, whatever ids and whatever entries that are
\* no keyed containers the input holds.
IdsContiguous ==
    (fn_pc = "normalized" /\ fn_out.t = "list") =>
        \A i \in 1..Len(fn_out.v) : Get(fn_out.v[i], Key("id")) = IntVal(i)

\* C8 (as claimed): _normalize_roadmap never raises; of every parsed value it
\* returns a list of modules.
NormalizeNeverRaises ==
    fn_pc = "normalized" => fn_out.t = "list"

\* the dicts among the first i items: the place in the output of a dict at i
DictsUpTo(items, i) == Cardinality({ k \in 1..i : items[k].t = "dict" })

\* the list under "resources" of a module, empty when there is none
ResourcesOf(m) ==
    IF Get(m, Key("resources")).t = "list" THEN Get(m, Key("resources")).v ELSE << >>

\* the address a resource gives: "url", else "link", else nothing
GivenUrl(r) == Or2(Or2(Get(r, Key("url")), Get(r, Key("link"))), EmptyStr)

Usable(url) == url.t = "str" /\ Strip(url.v) # << >>

\* C12: every resource of every module _normalize_roadmap returns has a url that
\* is a string with something other than blanks in it; where the resource given
\* has no url (or link), an empty or blank one, or one that is no string, it is
\* the placeholder, and otherwise the url given without the blanks around it.
UrlsPresent ==
    (fn_pc = "normalized" /\ fn_out.t = "list") =>
        /\ \A i \in 1..Len(fn_out.v) :
              \A j \in 1..Len(Get(fn_out.v[i], Key("resources")).v) :
                 Usable(Get(Get(fn_out.v[i], Key("resources")).v[j], Key("url")))
        /\ fn_in.t = "list" =>
              \A i \in 1..Len(fn_in.v) : fn_in.v[i].t = "dict" =>
                 \A j \in 1..Len(ResourcesOf(fn_in.v[i])) :
                    ResourcesOf(fn_in.v[i])[j].t = "dict" =>
                       LET given == GivenUrl(ResourcesOf(fn_in.v[i])[j])
                           made == Get(Get(fn_out.v[DictsUpTo(fn_in.v, i)], Key("resources"))
                                          .v[DictsUpTo(ResourcesOf(fn_in.v[i]), j)],
                                       Key("url"))
                       IN  made = IF Usable(given) THEN StrVal(Strip(given.v))
                                  ELSE StrVal(Placeholder)

UrlsPresentWitness ==
    /\ fn_pc = "normalized"
    /\ fn_in = ListVal(<< IntVal(1), UrlModule >>)
    /\ fn_out.t = "list"
    /\ Len(fn_out.v) = 1
    /\ [j \in 1..8 |-> Get(Get(fn_out.v[1], Key("resources")).v[j], Key("url")).v]
          = << << "site" >>, Placeholder, << "site" >>, Placeholder, Placeholder,
               Placeholder, Placeholder, << "site" >> >>

----------------------------------------------------------------------------
(* _normalize_resource_type applied to drawn values *)

MaxTypeLen == 3     \* the most tokens of a drawn type string

TypeWords ==
    { "VIDEO", "video", "Course", "Doctor", "docs", "Documentation", "Blog",
      "tutorial", "API", Blank }

\* what r.get("type") or r.get("format") or "" can be: strings, and the other
\* values a parsed resource can hold under these keys
TypeInputs ==
    { StrVal(chars) : chars \in SeqsUpTo(TypeWords, MaxTypeLen) }
        \cup { IntVal(0), IntVal(5), BoolVal(TRUE), BoolVal(FALSE), NullVal, EmptyList,
               ListVal(<< Word("video") >>), DictVal(<< >>),
               DictVal(<< << Key("kind"), Word("video") >> >>) }

InitType ==
    /\ RunOff
    /\ fn_pc = "type"
    /\ fn_in \in TypeInputs
    /\ fn_src = NoSource
    /\ fn_out = Unset
    /\ fn_again = Unset

\* rtype = _normalize_resource_type(raw_type)
NormalizeType ==
    /\ fn_pc = "type"
    /\ fn_out' = NormalizeResourceType(fn_in)
    /\ fn_pc' = "typed"
    /\ UNCHANGED << runVars, fn_in, fn_src, fn_again >>

NextType == NormalizeType

SpecType == InitType /\ [][NextType]_vars

\* the drawn type, in lower case, holds the keyword
TypeHolds(keyword) == fn_in.t = "str" /\ Contains(keyword, Lower(fn_in.v))

\* C11 (as claimed): _normalize_resource_type maps every input to Video,
\* Article, Course or Documentation, without regard to case and by keyword in
\* the order video, course, doc, article/blog/post; a type without keyword,
\* an empty one and a missing one map to Article.
TypeCanonical ==
    fn_pc = "typed" =>
        /\ fn_out \in { Word("Video"), Word("Article"), Word("Course"),
                        Word("Documentation") }
        /\ TypeHolds("video") => fn_out = Word("Video")
        /\ TypeHolds("course") /\ ~TypeHolds("video") => fn_out = Word("Course")
        /\ TypeHolds("doc") /\ ~TypeHolds("video") /\ ~TypeHolds("course")
              => fn_out = Word("Documentation")
        /\ ~TypeHolds("video") /\ ~TypeHolds("course") /\ ~TypeHolds("doc")
              => fn_out = Word("Article")

----------------------------------------------------------------------------
(* _enrich_resources_with_real_links applied to drawn modules *)

ManyVideos ==
    ModuleWith("Media", ListVal(<< VideoResource, BlogResource, VideoResource,
                                   DictVal(<< << Key("type"), Word("VIDEO") >> >>),
                                   DictVal(<< << Key("title"), Word("notes") >> >>),
                                   VideoResource >>))

\* what the curation stage can hand over as one module
EnrichEntries ==
    { VideoModule, TextModule, BrokenModule, ManyVideos, IntVal(1), DictVal(<< >>),
      ModuleWith("Links", ListVal(<< Word("site") >>)),
      DictVal(<< << Key("skills_covered"), ListVal(<< IntVal(5) >>) >>,
                 << Key("resources"), ListVal(<< VideoResource >>) >> >>) }

EnrichInputs ==
    { ListVal(items) : items \in SeqsUpTo(EnrichEntries, MaxEntries) }
        \cup { DictVal(<< << Key("modules"), ListVal(<< VideoModule >>) >> >>),
               IntVal(5), NullVal, Word("note"), EmptyStr }

\* a search that raises, finds nothing, finds one candidate or finds the most
DrawnOutcomes ==
    { outcome \in ProviderOutcomes :
         outcome.kind = "exception" \/ outcome.n \in { 0, 1, MaxCandidates } }

\* the controller is constructed with or without each credential, and the
\* provider answers each module in its own way
InitEnrich ==
    /\ RunOff
    /\ fn_pc = "modules"
    /\ fn_in \in EnrichInputs
    /\ \E youtube_key \in BOOLEAN, serper_key \in BOOLEAN,
          preferred_style \in { "Video", "Text" } :
          \E outcomes \in IF YoutubeService(youtube_key, serper_key) = "none"
                           THEN { << >> }
                           ELSE [1..ModuleSlots(fn_in) -> DrawnOutcomes] :
             fn_src = [youtube_key |-> youtube_key, serper_key |-> serper_key,
                       preferred_style |-> preferred_style, outcomes |-> outcomes]
    /\ fn_out = Unset
    /\ fn_again = Unset

\* curated_data = self._enrich_resources_with_real_links(curated_data, ...)
EnrichModules ==
    /\ fn_pc = "modules"
    /\ \E done \in { EnrichResourcesWithRealLinks(
                         fn_in, fn_src.preferred_style,
                         YoutubeService(fn_src.youtube_key, fn_src.serper_key),
                         fn_src.outcomes) } :
          /\ fn_out' = done.out
          /\ fn_again' = done.asked
    /\ fn_pc' = "enriched"
    /\ UNCHANGED << runVars, fn_in, fn_src >>

NextEnrich == EnrichModules

SpecEnrich == InitEnrich /\ [][NextEnrich]_vars

\* the provider the controller was constructed with
Active == YoutubeService(fn_src.youtube_key, fn_src.serper_key)

\* the provider gives nothing for any module: none is configured, or each
\* search raises or comes back empty
NothingFound ==
    \/ Active = "none"
    \/ \A i \in DOMAIN fn_src.outcomes :
          fn_src.outcomes[i].kind = "exception" \/ fn_src.outcomes[i].n = 0

\* C13 (as claimed): when the provider raises on every call, returns no
\* candidates or is not configured, _enrich_resources_with_real_links does not
\* raise and every module has the resource list it had before.
EnrichDegrades ==
    (fn_pc = "enriched" /\ NothingFound) =>
        /\ ~IsExc(fn_out)
        /\ fn_in.t = "list" =>
              /\ fn_out.t = "list" /\ Len(fn_out.v) = Len(fn_in.v)
              /\ \A i \in 1..Len(fn_in.v) :
                    GetOr(fn_out.v[i], Key("resources"), EmptyList)
                        = GetOr(fn_in.v[i], Key("resources"), EmptyList)

\* v: the resources of the i-th module whose type is video in any case
VideosIn(i) ==
    LET resources == GetOr(fn_in.v[i], Key("resources"), EmptyList).v IN
    Cardinality({ j \in 1..Len(resources) :
                    /\ GetOr(resources[j], Key("type"), EmptyStr).t = "str"
                    /\ Lower(GetOr(resources[j], Key("type"), EmptyStr).v) = << "video" >> })

\* C14: for every module the loop reaches, the count handed to the provider is
\* max(3, v) when the preferred style is Video, v when it is not and v > 0, and
\* 2 when it is not and v = 0; it is never zero.
QuotaNeverZero ==
    (fn_pc = "enriched" /\ Active # "none") =>
        /\ ~IsExc(fn_out) => Len(fn_again) = Len(fn_out.v)
        /\ \A i \in 1..Len(fn_again) :
              /\ fn_again[i] >= 1
              /\ fn_again[i] =
                    IF fn_src.preferred_style = "Video"
                    THEN (IF VideosIn(i) > 3 THEN VideosIn(i) ELSE 3)
                    ELSE IF VideosIn(i) > 0 THEN VideosIn(i)
                    ELSE 2

QuotaNeverZeroWitness ==
    /\ fn_pc = "enriched"
    /\ fn_in = ListVal(<< ManyVideos, TextModule >>)
    /\ fn_src.preferred_style = "Text"
    /\ fn_again = << 4, 2 >>

\* the provider answers the search for the i-th module with candidates
Found(i) ==
    /\ SkillsUsable(GetOr(fn_in.v[i], Key("skills_covered"), EmptyList))
    /\ fn_src.outcomes[i].kind = "results"
    /\ fn_src.outcomes[i].n >= 1

\* the candidates the provider answers with: as many as it has, up to the count
Candidates(i) ==
    [k \in 1..(IF fn_src.outcomes[i].n < fn_again[i] THEN fn_src.outcomes[i].n
               ELSE fn_again[i]) |-> Candidate(Active, k)]

\* the resources of the i-th module that are no videos, as curated
NonVideos(i) ==
    LET NoVideo(r) == Lower(GetOr(r, Key("type"), EmptyStr).v) # << "video" >>
    IN  SelectSeq(GetOr(fn_in.v[i], Key("resources"), EmptyList).v, NoVideo)

\* C15: when the provider returns at least one candidate for a module, the
\* resources of the module after enrichment are the candidates followed by the
\* curated resources that are no videos, in their order and as they were.
VideosReplaced ==
    (fn_pc = "enriched" /\ Active # "none" /\ ~IsExc(fn_out)) =>
        \A i \in 1..Len(fn_out.v) :
           Found(i) =>
              /\ Candidates(i) # << >>
              /\ Get(fn_out.v[i], Key("resources")) = ListVal(Candidates(i) \o NonVideos(i))

VideosReplacedWitness ==
    /\ fn_pc = "enriched"
    /\ fn_in = ListVal(<< ManyVideos >>)
    /\ Active = "youtube"
    /\ fn_src.outcomes = << [kind |-> "results", n |-> 1] >>
    /\ Get(fn_out.v[1], Key("resources"))
          = ListVal(<< Candidate("youtube", 1), BlogResource,
                       DictVal(<< << Key("title"), Word("notes") >> >>) >>)

\* the candidates of a provider carry its marks: view and like counts come
\* from the metrics-aware provider only
FromYoutube(r) == Get(r, Key("views")) # NullVal
FromSerper(r) == Get(r, Key("channel")) = Word("YouTube") /\ Get(r, Key("views")) = NullVal

\* C16: with the YouTube credential the metrics-aware provider answers the
\* searches, whether or not the Serper credential is there too; the fallback
\* answers them exactly when its credential is the only one; with neither no
\* search is made and the modules come back as they were.
ProviderSelected ==
    fn_pc = "enriched" =>
        /\ (~fn_src.youtube_key /\ ~fn_src.serper_key) => (fn_again = << >> /\ fn_out = fn_in)
        /\ (fn_src.youtube_key \/ fn_src.serper_key) /\ ~IsExc(fn_out) =>
              /\ Len(fn_again) = Len(fn_out.v)
              /\ \A i \in 1..Len(fn_out.v) :
                    Found(i) =>
                       /\ fn_src.youtube_key
                             <=> FromYoutube(Get(fn_out.v[i], Key("resources")).v[1])
                       /\ (~fn_src.youtube_key /\ fn_src.serper_key)
                             <=> FromSerper(Get(fn_out.v[i], Key("resources")).v[1])

ProviderSelectedWitness ==
    /\ fn_pc = "enriched"
    /\ fn_src.youtube_key /\ fn_src.serper_key
    /\ fn_in = ListVal(<< TextModule, VideoModule >>)
    /\ Found(1) /\ Found(2)
    /\ FromYoutube(Get(fn_out.v[2], Key("resources")).v[1])

----------------------------------------------------------------------------
(* YouTubeSearchService: search_videos, get_video_details, search_for_module *)

MaxVideos == 3      \* the most items of a drawn search response
MaxResults == 2     \* the largest count asked of a search

ViewCounts == { 500, 1000, 2000, 5000 }
LikeCounts == { 100, 200 }

\* one item of the search response: with or without a videoId, with or without
\* an entry in the response of the videos endpoint, and the counts of that entry
ApiItems ==
    { [has_id |-> TRUE, detailed |-> TRUE, views |-> views, likes |-> likes] :
         views \in ViewCounts, likes \in LikeCounts }
        \cup { [has_id |-> TRUE, detailed |-> FALSE, views |-> 0, likes |-> 0],
               [has_id |-> FALSE, detailed |-> FALSE, views |-> 0, likes |-> 0] }

\* what the two endpoints do for one search: each answers or raises
ApiResponses ==
    { [status |-> "raises", details |-> "ok", items |-> << >>] }
        \cup [status : { "ok" }, details : { "ok", "raises" },
              items : SeqsUpTo(ApiItems, MaxVideos)]

\* what the broader search can meet
BroaderResponses ==
    { [status |-> "raises", details |-> "ok", items |-> << >>],
      [status |-> "ok", details |-> "ok", items |-> << >>],
      [status |-> "ok", details |-> "ok",
       items |-> << [has_id |-> TRUE, detailed |-> TRUE, views |-> 2000, likes |-> 100] >>] }

\* the videos list of search_videos: an entry for every item with a videoId
ListedVideos(items) ==
    LET HasId(video) == items[video.video_id].has_id
    IN  SelectSeq([i \in 1..Len(items) |-> [video_id |-> i, views |-> 0, likes |-> 0]],
                  HasId)

\* get_video_details: the ids it has an entry for, none when it raises
DetailedIds(response) ==
    IF response.details = "raises" THEN { }
    ELSE { i \in 1..Len(response.items) :
              response.items[i].has_id /\ response.items[i].detailed }

\* the filter without the floor
QualifiesAny(video) == TRUE

\* int(video.get("views", "0")) >= 1000 of a video that is in details
Qualifies(video) == video.views >= 1000

\* video.update(details[vid]) for the videos in details, and the filter
QualityVideos(response) ==
    LET videos == ListedVideos(response.items)
        updated == [k \in 1..Len(videos) |->
                      [video_id |-> videos[k].video_id,
                       views |-> response.items[videos[k].video_id].views,
                       likes |-> response.items[videos[k].video_id].likes]]
        Kept(video) == video.video_id \in DetailedIds(response) /\ Qualifies(video)
    IN  SelectSeq(updated, Kept)

\* likes_ratio = (likes / views * 100) if views > 0 else 0, compared: the
\* counts are whole numbers far below 2^53, where the order of the quotients
\* in floating point is the order of the fractions
RatioAbove(a, b) ==
    IF a.views = 0 THEN FALSE
    ELSE IF b.views = 0 THEN a.likes > 0
    ELSE a.likes * b.views > b.likes * a.views

\* the sort key (float(likes_ratio), int(views)) of a is above that of b
KeyAbove(a, b) ==
    \/ RatioAbove(a, b)
    \/ ~RatioAbove(b, a) /\ a.views > b.views

\* list.sort(key=..., reverse=True) is stable: a video goes before the first
\* one whose key is below its own, behind those of equal key that came earlier
InsertRanked(sorted, video) ==
    LET below == { k \in 1..Len(sorted) : KeyAbove(video, sorted[k]) }
        at == IF below = { } THEN Len(sorted) + 1
              ELSE CHOOSE k \in below : \A other \in below : k <= other
    IN  SubSeq(sorted, 1, at - 1) \o << video >> \o SubSeq(sorted, at, Len(sorted))

RECURSIVE SortRanked(_, _, _)
SortRanked(videos, i, sorted) ==
    IF i > Len(videos) THEN sorted
    ELSE SortRanked(videos, i + 1, InsertRanked(sorted, videos[i]))

Take(items, n) == SubSeq(items, 1, IF n < Len(items) THEN n ELSE Len(items))

\* search_videos: every exception ends as no videos
SearchVideos(response, max_results) ==
    IF response.status = "raises" THEN << >>
    ELSE IF ListedVideos(response.items) = << >> THEN << >>
    ELSE Take(SortRanked(QualityVideos(response), 1, << >>), max_results)

\* the entry search_for_module makes of a video
FormatVideos(videos) ==
    [k \in 1..Len(videos) |->
        [video_id |-> videos[k].video_id, type |-> "Video",
         views |-> videos[k].views, likes |-> videos[k].likes]]

\* search_for_module that leaves it at the focused search
SearchForModuleOnce(response, broader, count) ==
    [found |-> SearchVideos(response, count),
     videos |-> FormatVideos(Take(SearchVideos(response, count), count)),
     queries |-> << "focused" >>]

\* search_for_module: the focused search, the broader one when that gave
\* nothing, and the videos[:count] formatted
SearchForModule(response, broader, count) ==
    LET found == SearchVideos(response, count) IN
    IF found # << >>
    THEN [found |-> found, videos |-> FormatVideos(Take(found, count)),
          queries |-> << "focused" >>]
    ELSE [found |-> found, videos |-> FormatVideos(Take(SearchVideos(broader, count), count)),
          queries |-> << "focused", "broader" >>]

InitSearch ==
    /\ RunOff
    /\ fn_pc = "query"
    /\ fn_in \in [response : ApiResponses, broader : BroaderResponses,
                   count : 1..MaxResults]
    /\ fn_src = NoSource
    /\ fn_out = Unset
    /\ fn_again = Unset

\* videos = self.youtube_service.search_for_module(..., count=count)
Search ==
    /\ fn_pc = "query"
    /\ \E done \in { SearchForModule(fn_in.response, fn_in.broader, fn_in.count) } :
          /\ fn_out' = [found |-> done.found, videos |-> done.videos]
          /\ fn_again' = done.queries
    /\ fn_pc' = "searched"
    /\ UNCHANGED << runVars, fn_in, fn_src >>

NextSearch == Search

SpecSearch == InitSearch /\ [][NextSearch]_vars

\* the view counts of the items search_videos returned
ViewsFound == [k \in 1..Len(fn_out.found) |-> fn_out.found[k].views]

\* the items of the response that pass the floor and have details
Ranked ==
    { i \in DetailedIds(fn_in.response) : fn_in.response.items[i].views >= 1000 }

\* C17: every candidate search_videos returns has at least 1000 views, the
\* candidates are in descending order of likes/views and, where that is equal,
\* of views, they are at most max_results, and they are the top of the ranking.
SearchRanked ==
    fn_pc = "searched" =>
        LET found == fn_out.found IN
        /\ Len(found) <= fn_in.count
        /\ \A k \in 1..Len(found) :
              /\ found[k].views >= 1000
              /\ found[k].video_id \in Ranked
              /\ found[k].views = fn_in.response.items[found[k].video_id].views
              /\ found[k].likes = fn_in.response.items[found[k].video_id].likes
        /\ \A k \in 1..(Len(found) - 1) :
              \/ found[k].likes * found[k + 1].views > found[k + 1].likes * found[k].views
              \/ /\ found[k].likes * found[k + 1].views
                       = found[k + 1].likes * found[k].views
                 /\ found[k].views >= found[k + 1].views
        /\ fn_in.response.status = "ok" =>
              /\ Len(found) = IF Cardinality(Ranked) < fn_in.count THEN Cardinality(Ranked)
                              ELSE fn_in.count
              /\ \A i \in Ranked :
                    (\A k \in 1..Len(found) : found[k].video_id # i) =>
                       \A k \in 1..Len(found) :
                          ~KeyAbove(fn_in.response.items[i], found[k])

SearchRankedWitness ==
    /\ fn_pc = "searched"
    /\ fn_in.count = 2
    /\ [i \in 1..Len(fn_in.response.items) |-> fn_in.response.items[i].views]
          = << 500, 2000, 5000 >>
    /\ [i \in 1..Len(fn_in.response.items) |-> fn_in.response.items[i].likes]
          = << 200, 100, 100 >>
    /\ ViewsFound = << 2000, 5000 >>

----------------------------------------------------------------------------
(* The log of a finished run *)

AgentNames == << "Market Analyst", "Architect", "Curator", "Critic", "System" >>

AgentIndex(agent) == CHOOSE i \in 1..Len(AgentNames) : AgentNames[i] = agent

\* C18: a run that reaches DONE returns its log entries in the order they were
\* written; there is at least one for each of Market Analyst, Architect,
\* Curator, Critic and System, and the entries of one name come before all
\* entries of the names after it.
LogsGrouped ==
    stage = "DONE" =>
        /\ [i \in 1..Len(logs) |-> << logs[i].agent_name, logs[i].action >>] = LogTrail
        /\ \A i \in 1..Len(AgentNames) : \E k \in 1..Len(logs) : logs[k].agent_name = AgentNames[i]
        /\ \A k \in 1..Len(logs) : \A later \in k..Len(logs) :
              /\ \E i \in 1..Len(AgentNames) : AgentNames[i] = logs[k].agent_name
              /\ AgentIndex(logs[k].agent_name) <= AgentIndex(logs[later].agent_name)
        /\ reply.status # 0 => reply = [status |-> 200, agent_logs |-> logs]

LogsGroupedWitness ==
    /\ stage = "DONE"
    /\ reply.status = 200
    /\ Len(reply.agent_logs) = 9
    /\ reply.agent_logs[1].agent_name = "Market Analyst"
    /\ reply.agent_logs[9].agent_name = "System"

\* C19 (as claimed): in a run that reaches DONE with a search provider
\* configured, every module of the roadmap returned has a resource of type Video.
EveryModuleHasVideo ==
    (stage = "DONE" /\ YoutubeService(env.youtube_key, env.serper_key) # "none") =>
        \A i \in 1..Len(roadmap.v) :
           \E j \in 1..Len(Get(roadmap.v[i], Key("resources")).v) :
              Get(Get(roadmap.v[i], Key("resources")).v[j], Key("type")) = Word("Video")

\* C20 (as claimed): nothing is retried; a provider search for a module that
\* fails or returns nothing is not followed by another search request for
\* that module.
NoSecondSearch ==
    fn_pc = "searched" => fn_again = << "focused" >>

----------------------------------------------------------------------------
(* _extract_json_substring applied to drawn texts *)

InitScan ==
    /\ RunOff
    /\ fn_pc = "unscanned"
    /\ fn_in \in SeqsUpTo(ExtractAlphabet, MaxTextLen)
    /\ fn_src = NoSource
    /\ fn_out = Unset
    /\ fn_again = Unset

\* inner = self._extract_json_substring(text)
Scan ==
    /\ fn_pc = "unscanned"
    /\ fn_out' = ExtractJsonSubstring(fn_in)
    /\ fn_pc' = "scanned"
    /\ UNCHANGED << runVars, fn_in, fn_src, fn_again >>

NextScan == Scan

SpecScan == InitScan /\ [][NextScan]_vars

\* the positions of the opening characters of the text
OpenerAt == { i \in 1..Len(fn_in) : fn_in[i] \in Openers }

\* the opening characters from which the scan comes to an empty stack
ClosingAt == { i \in OpenerAt : SpanEnd(fn_in, i) > 0 }

\* C23 (as claimed): the scan starts at the first opening character only; the
\* result is the span from there to where the stack empties, and empty when
\* that span is mismatched or never closed.
ScanFromFirstOpener ==
    fn_pc = "scanned" =>
        \A first \in OpenerAt :
           (\A other \in OpenerAt : first <= other) =>
              fn_out = IF first \in ClosingAt
                       THEN SubSeq(fn_in, first, SpanEnd(fn_in, first))
                       ELSE NoText

\* C23 (amended): every opening character is tried in turn; the result is the
\* span from the first opening character whose scan empties the stack to the
\* position where it does, delimiters in quoted strings and characters after a
\* backslash being passed over; it is empty exactly when no opening character
\* has such an end.
ScanFromFirstClosing ==
    fn_pc = "scanned" =>
        /\ ClosingAt = { } <=> fn_out = NoText
        /\ \A start \in ClosingAt :
              (\A other \in ClosingAt : start <= other) =>
                 /\ fn_out = SubSeq(fn_in, start, SpanEnd(fn_in, start))
                 /\ fn_out[1] \in Openers
                 /\ Matches(fn_out[1], fn_out[Len(fn_out)])

ScanFromFirstClosingWitness ==
    /\ fn_pc = "scanned"
    /\ fn_in = << LBracket, RBrace, LBracket, RBracket >>
    /\ fn_out = << LBracket, RBracket >>

----------------------------------------------------------------------------
(* The module list _normalize_roadmap works on *)

ListUnder(key) == HasKey(fn_in, Key(key)) /\ Get(fn_in, Key(key)).t = "list"

ListValuedAt == { i \in 1..Len(fn_in.v) : fn_in.v[i][2].t = "list" }

\* the module list by the shape of the value drawn
Resolved ==
    IF ~Truthy(fn_in) THEN << >>
    ELSE IF fn_in.t = "list" THEN fn_in.v
    ELSE IF fn_in.t # "dict" THEN << >>
    ELSE IF ListUnder("learning_path") THEN Get(fn_in, Key("learning_path")).v
    ELSE IF ListUnder("roadmap") THEN Get(fn_in, Key("roadmap")).v
    ELSE IF HasKey(fn_in, Key("module_name")) THEN << fn_in >>
    ELSE IF ListValuedAt # { }
         THEN fn_in.v[CHOOSE i \in ListValuedAt : \A other \in ListValuedAt : i <= other][2].v
    ELSE << >>

\* C24: _normalize_roadmap takes its modules from a sequence as it is; from a
\* keyed container it takes the sequence under "learning_path", else the one
\* under "roadmap", else the container itself as the only module when it has
\* a "module_name", else the first of its values that is a sequence, and
\* otherwise nothing.
ShapeResolved ==
    fn_pc = "normalized" => fn_out = NormalizeModules(Resolved, 0, << >>)

ShapeResolvedWitness ==
    /\ fn_pc = "normalized"
    /\ fn_in.t = "dict"
    /\ HasKey(fn_in, Key("module_name"))
    /\ HasKey(fn_in, Key("roadmap")) /\ ~ListUnder("roadmap")
    /\ ListValuedAt # { }
    /\ fn_out.t = "list" /\ Len(fn_out.v) = 1
    /\ Len(Get(fn_out.v[1], Key("resources")).v) = 2

----------------------------------------------------------------------------
(* The two searches of search_for_module *)

\* C25: search_for_module issues the broader search exactly when the focused
\* one returned no candidates, never more than two searches, and returns at
\* most count candidates, each of type Video.
BroaderWhenEmpty ==
    fn_pc = "searched" =>
        /\ fn_again \in { << "focused" >>, << "focused", "broader" >> }
        /\ Len(fn_again) = 2 <=> fn_out.found = << >>
        /\ Len(fn_out.videos) <= fn_in.count
        /\ \A k \in 1..Len(fn_out.videos) : fn_out.videos[k].type = "Video"
        /\ fn_out.found # << >> =>
              [k \in 1..Len(fn_out.videos) |-> fn_out.videos[k].video_id]
                 = [k \in 1..Len(fn_out.found) |-> fn_out.found[k].video_id]
        /\ fn_out.found = << >> =>
              Len(fn_out.videos) = IF /\ fn_in.broader.status = "ok"
                                      /\ fn_in.broader.items # << >>
                                   THEN 1 ELSE 0

BroaderWhenEmptyWitness ==
    /\ fn_pc = "searched"
    /\ fn_in.response.status = "ok"
    /\ Len(fn_in.response.items) = 2
    /\ fn_out.found = << >>
    /\ fn_again = << "focused", "broader" >>
    /\ Len(fn_out.videos) = 1
    /\ fn_out.videos[1].type = "Video"

----------------------------------------------------------------------------
(* What a stage hands on *)

CanonicalTypes == { Word("Video"), Word("Article"), Word("Course"), Word("Documentation") }

\* x is what _normalize_roadmap returns: a list of module records whose
\* resources are records of a canonical type
IsNormalized(x) ==
    /\ x.t = "list"
    /\ \A i \in 1..Len(x.v) :
          /\ x.v[i].t = "dict"
          /\ Get(x.v[i], Key("id")) = IntVal(i)
          /\ Get(x.v[i], Key("resources")).t = "list"
          /\ \A j \in 1..Len(Get(x.v[i], Key("resources")).v) :
                Get(Get(x.v[i], Key("resources")).v[j], Key("type")) \in CanonicalTypes

\* C22 (as claimed): what a stage hands on has been through the extraction
\* and then the normalization: the modules given to the next prompt and those
\* given to the enrichment after curation are normalized module records with
\* canonical resource types.
HandedOnNormalized ==
    /\ (stage = "CURATION" /\ phase = "calling") => IsNormalized(structure_data)
    /\ (stage = "ENRICHMENT" /\ phase = "enriching") => IsNormalized(curated_data)

----------------------------------------------------------------------------
(* The rows of a run *)

\* C26 (as claimed): a run that ends in FAILED has written no user, roadmap,
\* module, resource or log row; a run that reaches DONE with a database has
\* written each of its log entries once, under the roadmap it created.
PersistOnlyOnSuccess ==
    /\ stage = "FAILED" => db_rows = NoRows
    /\ (stage = "DONE" /\ env.db) =>
          /\ db_rows.roadmaps = 1 /\ current_roadmap_id = 1
          /\ db_rows.logs = [i \in 1..Len(logs) |-> [roadmap_id |-> 1, entry |-> logs[i]]]

----------------------------------------------------------------------------
(* What a run shares with the other runs of the process *)

\* C21 (as claimed): a run writes no process-wide state; what it shares with
\* the runs on other controllers, the generative client of the module among
\* it, is the same after every step of the run as before.
ProcessStateReadOnly == [][genai_model' = genai_model]_vars

----------------------------------------------------------------------------
(* Several runs of one controller, one after another *)

MaxRuns == 2        \* the most calls of generate_learning_path on one controller

RunsStarted == Cardinality({ i \in 1..Len(entered) : entered[i] = "INIT" })

\* one controller with the generative credential, a database or none, and no
\* search provider
InitReuse ==
    /\ Init
    /\ env.gemini_key /\ ~env.youtube_key /\ ~env.serper_key
    /\ env.preferred_style = "Text"

\* generate_learning_path is called again on the controller: the locals of
\* the call are new; self.logs, self._current_roadmap_id, the rows and the
\* client of the module are what the call before left
RunAgain ==
    /\ stage \in { "DONE", "FAILED" }
    /\ reply.status # 0
    /\ RunsStarted < MaxRuns
    /\ stage' = "INIT"
    /\ phase' = "idle"
    /\ entered' = Append(entered, "INIT")
    /\ text' = << >>
    /\ market_data' = Unset
    /\ structure_data' = Unset
    /\ curated_data' = Unset
    /\ final_roadmap' = Unset
    /\ roadmap' = Unset
    /\ error' = "none"
    /\ reply' = [status |-> 0, agent_logs |-> << >>]
    /\ calls' = [st \in CallStages |-> 0]
    /\ searches' = << >>
    /\ extractions' = << >>
    /\ UNCHANGED << fnVars, logs, db_rows, current_roadmap_id, genai_model, env >>

NextReuse ==
    \/ EnterMarketAnalysis
    \/ CallModelRaises
    \/ CallModelReturns
    \/ FinishMarketAnalysis
    \/ EnterArchitecture
    \/ FinishArchitecture
    \/ EnterCuration
    \/ FinishCuration
    \/ EnterEnrichment
    \/ Enrich
    \/ EnterCritique
    \/ FinishCritique
    \/ Respond
    \/ RunAgain

SpecReuse == InitReuse /\ [][NextReuse]_vars

\* the runs that have rows under the roadmap: each run starts with one line
RunsUnder(id) ==
    Cardinality({ i \in 1..Len(db_rows.logs) :
                    /\ db_rows.logs[i].roadmap_id = id
                    /\ db_rows.logs[i].entry.action = "Scanning job boards" })

\* C27 (as claimed): the logs a run returns are the entries of that run, also
\* when the controller has run before: no entry of an earlier run is among
\* them, and no entry of a later run is stored under the roadmap of an
\* earlier one.
LogsOfOneRun ==
    /\ reply.status = 200 =>
          [i \in 1..Len(reply.agent_logs) |->
              << reply.agent_logs[i].agent_name, reply.agent_logs[i].action >>] = LogTrail
    /\ \A id \in 1..db_rows.roadmaps :
          RunsUnder(id) <= 1

============================================================================
